---- MODULE Spec2Model ----
(***************************************************************************)
(* A model of glint's registry + cached execution + batch layer:           *)
(*   src/src/cache.ts           FileCache, createContentHash, createCacheKey*)
(*   src/src/linter.ts          GlintLinter                                 *)
(*   src/src/formatter.ts       GlintFormatter                              *)
(*   src/src/plugin-manager.ts  PluginManager                               *)
(*   src/src/engine.ts          GlintEngine                                 *)
(*                                                                         *)
(* Strings the code inspects character by character (rule ids, file        *)
(* contents) are sequences of one-character strings; strings the code only *)
(* compares for equality are TLA+ strings.                                  *)
(***************************************************************************)
EXTENDS Integers, Sequences, FiniteSets, TLC

VARIABLES
    \* ---- FileCache (src/src/cache.ts)
    memoryCache,      \* the Map<string, CacheEntry>, in insertion order: a sequence of [key, entry]
    diskCache,        \* the cache directory: file name -> NoFile | Corrupt | the parsed JSON entry
    version,          \* FileCache.version of the running process
    now,              \* Date.now(), in milliseconds
    got,              \* the last direct get(key): what was asked and what came back
    \* ---- GlintLinter / GlintFormatter
    config,           \* the GlintConfig the linter and the formatter were constructed with
    linterMetrics,    \* GlintLinter.metrics
    formatterMetrics, \* GlintFormatter.metrics
    call,             \* the last lintFile / formatFile call and its outcome
    prevCall,         \* the call before it
    calls,            \* how many calls were made
    lookedUp,         \* the cache keys that lintFile / formatFile calls have looked up before the last call
    \* ---- PluginManager (src/src/plugin-manager.ts)
    plugins,          \* this.plugins: name -> Plugin
    rules,            \* this.rules: `${pluginName}/${ruleId}` -> Rule
    formatters,       \* this.formatters: name -> (language -> Formatter)
    processors,       \* this.processors: extension -> Processor
    lastOp,           \* the last registerPlugin / unregisterPlugin call and the registry before it
    \* ---- runRules on a given tree, lintFiles / formatFiles on a given list
    run,              \* the input of a runRules call and, once it ran, its outcome
    batch,            \* a lintFiles / formatFiles call in progress
    \* ---- GlintEngine (src/src/engine.ts)
    engine,           \* this.metrics, and the orchestrator operation in progress
    \* ---- the calls made on a FileCache directly
    history           \* the last set of every key, and the last call

cacheVars == <<memoryCache, diskCache, version, now, got>>
execVars  == <<config, linterMetrics, formatterMetrics, call, prevCall, lookedUp>>
registryVars == <<plugins, rules, formatters, processors, lastOp>>
vars      == <<cacheVars, execVars, calls, registryVars, run, batch, engine, history>>

-----------------------------------------------------------------------------
(* Generic helpers                                                         *)

Range(s) == {s[i] : i \in 1..Len(s)}

Max(a, b) == IF a >= b THEN a ELSE b

\* Body(value), with the value computed once: a `const x = value` followed by Body.
With(value, Body(_)) == CHOOSE r \in {Body(x) : x \in {value}} : TRUE

\* The position of x in the sequence s (0 when absent).
IndexOf(s, x) ==
    IF \E i \in 1..Len(s) : s[i] = x
      THEN CHOOSE i \in 1..Len(s) : s[i] = x /\ \A j \in 1..(i - 1) : s[j] # x
      ELSE 0

-----------------------------------------------------------------------------
(* Strings, character by character                                         *)

S_html == <<"h", "t", "m", "l">>
S_css == <<"c", "s", "s">>
S_javascript == <<"j", "a", "v", "a", "s", "c", "r", "i", "p", "t">>
S_typescript == <<"t", "y", "p", "e", "s", "c", "r", "i", "p", "t">>
S_common == <<"c", "o", "m", "m", "o", "n">>
S_js == <<"j", "s">>
S_ts == <<"t", "s">>
S_slash == <<"/">>
S_no_duplicate_attributes == <<"n", "o", "-", "d", "u", "p", "l", "i", "c", "a", "t", "e", "-", "a", "t", "t", "r", "i", "b", "u", "t", "e", "s">>
S_require_alt == <<"r", "e", "q", "u", "i", "r", "e", "-", "a", "l", "t">>
S_no_duplicate_properties == <<"n", "o", "-", "d", "u", "p", "l", "i", "c", "a", "t", "e", "-", "p", "r", "o", "p", "e", "r", "t", "i", "e", "s">>
S_no_unused_vars == <<"n", "o", "-", "u", "n", "u", "s", "e", "d", "-", "v", "a", "r", "s">>
S_prefer_const == <<"p", "r", "e", "f", "e", "r", "-", "c", "o", "n", "s", "t">>
S_no_explicit_any == <<"n", "o", "-", "e", "x", "p", "l", "i", "c", "i", "t", "-", "a", "n", "y">>

\* String.prototype.startsWith
StartsWith(s, prefix) ==
    /\ Len(prefix) <= Len(s)
    /\ SubSeq(s, 1, Len(prefix)) = prefix

\* String.prototype.includes
Includes(s, sub) ==
    \E i \in 0..(Len(s) - Len(sub)) : SubSeq(s, i + 1, i + Len(sub)) = sub

\* s.split('/')[0]: the text before the first '/', the whole string when there is none
SplitSlashFirst(s) ==
    IF \E i \in 1..Len(s) : s[i] = "/"
      THEN SubSeq(s, 1, (CHOOSE i \in 1..Len(s) : s[i] = "/" /\ \A j \in 1..(i - 1) : s[j] # "/") - 1)
      ELSE s

\* s.split('/').length
SplitSlashLength(s) == Cardinality({i \in 1..Len(s) : s[i] = "/"}) + 1

\* The template literal `${a}/${b}`
SlashJoin(a, b) == a \o S_slash \o b

SupportedLanguages == {"html", "css", "javascript", "typescript"}

\* The language name as the characters a template literal interpolates.
LanguageChars(language) ==
    CASE language = "html"       -> S_html
      [] language = "css"        -> S_css
      [] language = "javascript" -> S_javascript
      [] language = "typescript" -> S_typescript

-----------------------------------------------------------------------------
(* Bounds of the model                                                     *)

\* maxMemoryEntries handed to the FileCache constructor.
MaxMemoryEntries == 2

\* The clock stops advancing after this many hours.
MaxClockHours == 25

\* lintFile / formatFile calls in one behaviour.
MaxCalls == 2

\* Direct FileCache calls (set, get, clear) and restarts in one behaviour.
MaxCacheOps == 4

-----------------------------------------------------------------------------
(* Configuration (src/src/types.ts GlintConfig, src/src/config.ts)         *)

\* A FormattingConfig: the fields the formatter reads.
FormatterLf ==
    [indentSize |-> 2, indentType |-> "spaces", endOfLine |-> "lf",
     insertFinalNewline |-> TRUE, trimTrailingWhitespace |-> TRUE]

FormatterNoFinalNewline == [FormatterLf EXCEPT !.insertFinalNewline = FALSE]

\* The rule configurations of the default configuration: keyed by the plain rule name.
HtmlRules == (S_no_duplicate_attributes :> "error") @@ (S_require_alt :> "warn")
CssRules  == (S_no_duplicate_properties :> "error")
JsRules   == (S_no_unused_vars :> "warn") @@ (S_prefer_const :> "error")
TsRules   == (S_no_explicit_any :> "warn")

LanguageConfig(enabled, ruleConfig, formatter) ==
    [enabled |-> enabled, rules |-> ruleConfig, formatter |-> formatter]

\* The configuration of the test suites and of config.ts, cut to what the code reads.
ConfigA ==
    [parallel     |-> TRUE,
     maxWorkers   |-> 2,
     cacheEnabled |-> TRUE,
     html         |-> LanguageConfig(TRUE, HtmlRules, FormatterLf),
     css          |-> LanguageConfig(TRUE, CssRules, FormatterLf),
     javascript   |-> LanguageConfig(TRUE, JsRules, FormatterLf),
     typescript   |-> LanguageConfig(TRUE, TsRules, FormatterLf),
     formatting   |-> FormatterLf]

\* ConfigA with the html section changed: another severity, another formatter option.
ConfigB ==
    [ConfigA EXCEPT
       !.html = LanguageConfig(TRUE,
                               (S_no_duplicate_attributes :> "error") @@ (S_require_alt :> "off"),
                               FormatterNoFinalNewline)]

\* ConfigA with caching switched off.
ConfigNoCache == [ConfigA EXCEPT !.cacheEnabled = FALSE]

Configs == {ConfigA, ConfigB}

-----------------------------------------------------------------------------
(* Files (src/src/types.ts FileInfo)                                       *)

Content_a  == <<"a">>
Content_b  == <<"b">>
Content_ab == <<"a", "\n", "b">>

FileInfo(path, content, language) ==
    [path |-> path, content |-> content, language |-> language]

Files ==
    {FileInfo("test.html", Content_a, "html"),
     FileInfo("test.html", Content_b, "html"),
     FileInfo("test.css", Content_a, "css"),
     FileInfo("test.js", Content_ab, "javascript"),
     FileInfo("test.ts", Content_a, "typescript")}

\* The files handed to formatFile.
FormatFiles ==
    {FileInfo("test.html", Content_a, "html"),
     FileInfo("test.html", Content_b, "html"),
     FileInfo("test.css", Content_a, "css")}

-----------------------------------------------------------------------------
(* src/src/cache.ts                                                        *)

NoFile  == [kind |-> "NoFile"]     \* existsSync(filePath) is false
Corrupt == [kind |-> "Corrupt"]    \* the file exists and JSON.parse throws on it
Absent  == [kind |-> "Absent"]     \* get() returns undefined

HourMs == 60 * 60 * 1000

\* 24 * 60 * 60 * 1000, the freshness window of get().
FreshnessWindowMs == 24 * 60 * 60 * 1000

\* createHash('sha256').update(content).update(JSON.stringify(config)).digest('hex').
\* The full 256-bit digest is taken to be collision-free: the digest of two inputs is
\* equal exactly when the content and the serialized configuration are equal.
createContentHash(content, cfg) == [content |-> content, config |-> cfg]

\* `${operation}:${filePath}:${contentHash}`: the operation has no ':' and the hash has a
\* fixed length, so the three parts are recovered from the string.
createCacheKey(filePath, contentHash, operation) ==
    [operation |-> operation, filePath |-> filePath, hash |-> contentHash]

\* The key '', which createCacheKey never makes and a caller of get / set can pass.
EmptyKey == [operation |-> "", filePath |-> "", hash |-> [content |-> <<>>, config |-> <<>>]]

\* The number of file names `${hash.slice(0, 8)}.json` can take: 16^8 in the code, far
\* fewer than there are keys. The model scales both down, keeping fewer names than keys.
PrefixSpace == 3

OperationCode(operation) == IF operation = "lint" THEN 0 ELSE 1

PathCode(path) ==
    CASE path = "test.html" -> 0
      [] path = "test.css"  -> 1
      [] path = "test.js"   -> 2
      [] OTHER              -> 3

ContentCode(content) == Len(content) + (IF content[1] = "a" THEN 0 ELSE 3)

\* The serialized configuration: a language section (lint) or a formatter section (format).
ConfigCode(json) ==
    IF "rules" \in DOMAIN json
      THEN (IF json.enabled THEN 0 ELSE 1) + (IF json.formatter.insertFinalNewline THEN 0 ELSE 2)
      ELSE (IF json.insertFinalNewline THEN 1 ELSE 2)

\* sha256(key).slice(0, 8): a fixed function of the whole key with a range of PrefixSpace
\* values. Like the 32-bit prefix of the digest it is many-to-one.
getCacheFilePath(key) ==
    IF key = EmptyKey THEN 0
    ELSE (OperationCode(key.operation) + PathCode(key.filePath)
            + ContentCode(key.hash.content) + ConfigCode(key.hash.config)) % PrefixSpace

FileNames == 0..(PrefixSpace - 1)

\* ---- the Map<string, CacheEntry>, insertion-ordered

MapHas(m, key) == \E i \in 1..Len(m) : m[i].key = key

MapGet(m, key) == m[CHOOSE i \in 1..Len(m) : m[i].key = key].entry

\* Map.prototype.set: an existing key keeps its position.
MapSet(m, key, entry) ==
    IF MapHas(m, key)
      THEN [i \in 1..Len(m) |-> IF m[i].key = key THEN [key |-> key, entry |-> entry] ELSE m[i]]
      ELSE Append(m, [key |-> key, entry |-> entry])

\* `if (oldestKey)` is false when the map is empty (undefined) and when the oldest key
\* is the empty string.
evictOldestMemoryEntry(m) ==
    IF Len(m) >= MaxMemoryEntries
      THEN (IF Len(m) > 0 /\ Head(m).key # EmptyKey THEN Tail(m) ELSE m)
      ELSE m

\* A get whose read of the cache file is not guarded by try / catch.
FileCacheGet_NoCatch(mem, disk, ver, t, key) ==
    IF MapHas(mem, key) /\ MapGet(mem, key).version = ver
      THEN [entry |-> MapGet(mem, key), memory |-> mem, threw |-> FALSE]
      ELSE LET file == disk[getCacheFilePath(key)] IN
           IF file = Corrupt
             THEN [entry |-> Absent, memory |-> mem, threw |-> TRUE]
           ELSE IF /\ file # NoFile
                   /\ file.version = ver
                   /\ t - file.timestamp < FreshnessWindowMs
             THEN [entry |-> file, memory |-> MapSet(evictOldestMemoryEntry(mem), key, file),
                   threw |-> FALSE]
             ELSE [entry |-> Absent, memory |-> mem, threw |-> FALSE]

\* FileCache.get: the entry returned (or Absent), the memory tier afterwards, and whether
\* the call raised. Reading, parsing and validating the file happen inside try / catch.
FileCacheGet(mem, disk, ver, t, key) ==
    IF MapHas(mem, key) /\ MapGet(mem, key).version = ver
      THEN [entry |-> MapGet(mem, key), memory |-> mem, threw |-> FALSE]
      ELSE LET file == disk[getCacheFilePath(key)] IN
           IF /\ file # NoFile
              /\ file # Corrupt
              /\ file.version = ver
              /\ t - file.timestamp < FreshnessWindowMs
             THEN [entry |-> file, memory |-> MapSet(evictOldestMemoryEntry(mem), key, file),
                   threw |-> FALSE]
             ELSE [entry |-> Absent, memory |-> mem, threw |-> FALSE]

\* FileCache.set: both tiers afterwards. writeOk is whether writeFileSync succeeded.
\* The entries the linter and the formatter store hold strings, numbers, booleans and
\* arrays of them, which JSON.stringify / JSON.parse give back unchanged.
\* A set that writes the persistent tier only.
FileCacheSet_DiskOnly(mem, disk, ver, t, key, entry, writeOk) ==
    LET stamped == [entry EXCEPT !.version = ver, !.timestamp = t] IN
    [memory |-> mem,
     disk   |-> IF writeOk THEN [disk EXCEPT ![getCacheFilePath(key)] = stamped] ELSE disk,
     threw  |-> FALSE]

FileCacheSet(mem, disk, ver, t, key, entry, writeOk) ==
    LET stamped == [entry EXCEPT !.version = ver, !.timestamp = t] IN
    [memory |-> MapSet(evictOldestMemoryEntry(mem), key, stamped),
     disk   |-> IF writeOk
                  THEN [disk EXCEPT ![getCacheFilePath(key)] = stamped]
                  ELSE disk,
     threw  |-> FALSE]

-----------------------------------------------------------------------------
(* src/src/linter.ts: the built-in rules                                   *)

Rule_html_no_duplicate_attributes == SlashJoin(S_html, S_no_duplicate_attributes)
Rule_html_require_alt             == SlashJoin(S_html, S_require_alt)
Rule_css_no_duplicate_properties  == SlashJoin(S_css, S_no_duplicate_properties)
Rule_js_no_unused_vars            == SlashJoin(S_js, S_no_unused_vars)
Rule_js_prefer_const              == SlashJoin(S_js, S_prefer_const)
Rule_ts_no_explicit_any           == SlashJoin(S_ts, S_no_explicit_any)

loadHtmlRules(cfg) ==
    IF cfg.html.enabled
      THEN <<Rule_html_no_duplicate_attributes, Rule_html_require_alt>>
      ELSE <<>>

loadCssRules(cfg) ==
    IF cfg.css.enabled THEN <<Rule_css_no_duplicate_properties>> ELSE <<>>

loadJavaScriptRules(cfg) ==
    IF cfg.javascript.enabled
      THEN <<Rule_js_no_unused_vars, Rule_js_prefer_const>>
      ELSE <<>>

loadTypeScriptRules(cfg) ==
    IF cfg.typescript.enabled THEN <<Rule_ts_no_explicit_any>> ELSE <<>>

\* GlintLinter.rules after the constructor: the keys of the Map, in insertion order.
loadBuiltinRules(cfg) ==
    loadHtmlRules(cfg) \o loadCssRules(cfg) \o loadJavaScriptRules(cfg) \o loadTypeScriptRules(cfg)

\* The language whose loader registers the rule.
BuiltinLanguage(ruleId) ==
    CASE ruleId \in {Rule_html_no_duplicate_attributes, Rule_html_require_alt} -> "html"
      [] ruleId = Rule_css_no_duplicate_properties                           -> "css"
      [] ruleId \in {Rule_js_no_unused_vars, Rule_js_prefer_const}           -> "javascript"
      [] ruleId = Rule_ts_no_explicit_any                                    -> "typescript"

\* The node kind the listener returned by rule.create(context) has a handler for.
ListenerKind(ruleId) ==
    CASE ruleId \in {Rule_html_no_duplicate_attributes, Rule_html_require_alt} -> "HTMLElement"
      [] ruleId = Rule_css_no_duplicate_properties                           -> "CSSRule"
      [] ruleId = Rule_js_no_unused_vars                                     -> "VariableDeclarator"
      [] ruleId = Rule_js_prefer_const                                       -> "VariableDeclaration"
      [] ruleId = Rule_ts_no_explicit_any                                    -> "TSAnyKeyword"

getLanguageConfig(cfg, language) ==
    CASE language = "html"       -> cfg.html
      [] language = "css"        -> cfg.css
      [] language = "javascript" -> cfg.javascript
      [] language = "typescript" -> cfg.typescript

\* The rules of this.rules whose id starts with `${language}/` or with 'common/'.
getLanguageRules(cfg, language) ==
    SelectSeq(loadBuiltinRules(cfg),
              LAMBDA ruleId :
                  \/ StartsWith(ruleId, LanguageChars(language) \o S_slash)
                  \/ StartsWith(ruleId, S_common \o S_slash))

\* config.rules[ruleId]: undefined when the key is not set.
ConfiguredSeverity(ruleConfig, ruleId) ==
    IF ruleId \in DOMAIN ruleConfig THEN ruleConfig[ruleId] ELSE "undefined"

\* A severity resolution whose fallback is error.
getRuleSeverity_DefaultError(cfg, ruleId, language) ==
    LET ruleSeverity == ConfiguredSeverity(getLanguageConfig(cfg, language).rules, ruleId) IN
    IF ruleSeverity = "error" THEN 2
    ELSE IF ruleSeverity = "warn" THEN 1
    ELSE 2

getRuleSeverity(cfg, ruleId, language) ==
    LET ruleSeverity == ConfiguredSeverity(getLanguageConfig(cfg, language).rules, ruleId) IN
    IF ruleSeverity = "error" THEN 2
    ELSE IF ruleSeverity = "warn" THEN 1
    ELSE 1

-----------------------------------------------------------------------------
(* src/src/linter.ts: syntax trees, traversal, rule handlers               *)

Undefined == "undefined"

\* A node: its kind, the fields the built-in handlers read, and its child nodes in
\* the order `for (const key in node)` meets them.
\*   names:    the names in node.attributes / node.declarations (a sequence of strings
\*             of characters; empty also when the field is undefined, which the
\*             handlers treat alike), or the characters of node.id.name
\*   iterable: FALSE when the field is a truthy value that is no array, on which
\*             `for...of` and `.some` throw
Node(type, tagName, names, iterable, kind, children) ==
    [type |-> type, tagName |-> tagName, names |-> names, iterable |-> iterable,
     kind |-> kind, children |-> children]

HTMLDocument(children)  == Node("HTMLDocument", Undefined, <<>>, TRUE, Undefined, children)
HTMLElement(tag, attributes, iterable, children) ==
    Node("HTMLElement", tag, attributes, iterable, Undefined, children)
CSSStyleSheet(children) == Node("CSSStyleSheet", Undefined, <<>>, TRUE, Undefined, children)
CSSRule(declarations, iterable) == Node("CSSRule", Undefined, declarations, iterable, Undefined, <<>>)
Program(children)       == Node("Program", Undefined, <<>>, TRUE, Undefined, children)
\* node.declarations of a VariableDeclaration are its child VariableDeclarator nodes;
\* node.raw is a string.
VariableDeclaration(kind, declarators) ==
    Node("VariableDeclaration", Undefined, <<>>, TRUE, kind, declarators)
\* names holds the characters of node.id.name (empty: no name).
VariableDeclarator(idName) == Node("VariableDeclarator", Undefined, idName, TRUE, Undefined, <<>>)
TSAnyKeyword            == Node("TSAnyKeyword", Undefined, <<>>, TRUE, Undefined, <<>>)

SourceCode(text, ast) == [text |-> text, ast |-> ast]

parseHtml(content)       == SourceCode(content, HTMLDocument(<<>>))
parseCss(content)        == SourceCode(content, CSSStyleSheet(<<>>))
parseJavaScript(content) == SourceCode(content, Program(<<>>))
parseTypeScript(content) == SourceCode(content, Program(<<>>))

parseFile(file) ==
    CASE file.language = "html"       -> parseHtml(file.content)
      [] file.language = "css"        -> parseCss(file.content)
      [] file.language = "javascript" -> parseJavaScript(file.content)
      [] file.language = "typescript" -> parseTypeScript(file.content)

\* What one handler invocation does: the descriptors it passes to context.report, in
\* order, and whether it then throws.
Outcome(reports, threw) == [reports |-> reports, threw |-> threw]

Report(message, fix) == [message |-> message, fix |-> fix]

\* The object every fixer method returns.
FixStub == "{ range: [0, 0], text: '' }"

\* The loop shared by no-duplicate-attributes and no-duplicate-properties:
\*   for (const x of list || []) { if (seen.has(x.name)) report(...); seen.add(x.name) }
DuplicateReports(names, what) ==
    LET dup == SelectSeq([i \in 1..Len(names) |-> i],
                         LAMBDA i : \E j \in 1..(i - 1) : names[j] = names[i]) IN
    [k \in 1..Len(dup) |-> Report(<<what, names[dup[k]]>>, FixStub)]

DuplicateHandler(node, what) ==
    IF ~node.iterable THEN Outcome(<<>>, TRUE)
    ELSE Outcome(DuplicateReports(node.names, what), FALSE)

S_alt == <<"a", "l", "t">>
S_id  == <<"i", "d">>
S_color == <<"c", "o", "l", "o", "r">>

RequireAltHandler(node) ==
    IF node.tagName # "img" THEN Outcome(<<>>, FALSE)
    ELSE IF ~node.iterable THEN Outcome(<<>>, TRUE)
    ELSE IF \E i \in 1..Len(node.names) : node.names[i] = S_alt THEN Outcome(<<>>, FALSE)
    ELSE Outcome(<<Report(<<"Missing alt attribute for img element", <<>>>>, Undefined)>>, FALSE)

isVariableUsed(name, sourceCode) == Includes(sourceCode.text, name)

Whitespace == {" ", "\n", "\t", "\r"}

\* Whether `${name}\s*=` matches at position i of text.
AssignmentAt(text, name, i) ==
    /\ i + Len(name) - 1 <= Len(text)
    /\ SubSeq(text, i, i + Len(name) - 1) = name
    /\ \E j \in (i + Len(name))..Len(text) :
          /\ text[j] = "="
          /\ \A k \in (i + Len(name))..(j - 1) : text[k] \in Whitespace

\* (text.match(new RegExp(`${name}\\s*=`, 'g'))?.length || 0) > 1, for a name that does
\* not overlap itself: each match starts where the name starts.
isVariableReassigned(name, sourceCode) ==
    Cardinality({i \in 1..Len(sourceCode.text) : AssignmentAt(sourceCode.text, name, i)}) > 1

NoUnusedVarsHandler(node, sourceCode) ==
    IF node.names # <<>> /\ ~isVariableUsed(node.names, sourceCode)
      THEN Outcome(<<Report(<<"is defined but never used", node.names>>, Undefined)>>, FALSE)
      ELSE Outcome(<<>>, FALSE)

PreferConstHandler(node, sourceCode) ==
    IF node.kind # "let" THEN Outcome(<<>>, FALSE)
    ELSE LET named == SelectSeq(node.children,
                                LAMBDA d : /\ d.names # <<>>
                                           /\ ~isVariableReassigned(d.names, sourceCode)) IN
         Outcome([k \in 1..Len(named) |->
                     Report(<<"is never reassigned. Use 'const' instead.", named[k].names>>, FixStub)],
                 FALSE)

\* listener[node.type](node) of the listener that rule.create(context) returns.
Handler(ruleId, node, sourceCode) ==
    CASE ruleId = Rule_html_no_duplicate_attributes -> DuplicateHandler(node, "Duplicate attribute")
      [] ruleId = Rule_html_require_alt             -> RequireAltHandler(node)
      [] ruleId = Rule_css_no_duplicate_properties  -> DuplicateHandler(node, "Duplicate property")
      [] ruleId = Rule_js_no_unused_vars            -> NoUnusedVarsHandler(node, sourceCode)
      [] ruleId = Rule_js_prefer_const              -> PreferConstHandler(node, sourceCode)
      [] ruleId = Rule_ts_no_explicit_any           ->
             Outcome(<<Report(<<"Unexpected any. Specify a different type.", <<>>>>, Undefined)>>, FALSE)

RECURSIVE traverseAST(_, _, _)
RECURSIVE traverseChildren(_, _, _, _)

\* A traversal that calls the handler of a node after the node's children.
traverseAST_PostOrder(node, ruleId, sourceCode) ==
    LET below == traverseChildren(node.children, 1, ruleId, sourceCode) IN
    IF below.threw THEN below
    ELSE LET here == IF node.type = ListenerKind(ruleId)
                       THEN Handler(ruleId, node, sourceCode)
                       ELSE Outcome(<<>>, FALSE) IN
         Outcome(below.reports \o here.reports, here.threw)

\* The children of a node from the i-th on, stopping at the first throw.
traverseChildren(children, i, ruleId, sourceCode) ==
    IF i > Len(children) THEN Outcome(<<>>, FALSE)
    ELSE LET first == traverseAST(children[i], ruleId, sourceCode) IN
         IF first.threw THEN first
         ELSE LET rest == traverseChildren(children, i + 1, ruleId, sourceCode) IN
              Outcome(first.reports \o rest.reports, rest.threw)

\* Pre-order: the handler for the node's kind, then the children.
traverseAST(node, ruleId, sourceCode) ==
    LET here == IF node.type = ListenerKind(ruleId)
                  THEN Handler(ruleId, node, sourceCode)
                  ELSE Outcome(<<>>, FALSE) IN
    IF here.threw THEN here
    ELSE LET below == traverseChildren(node.children, 1, ruleId, sourceCode) IN
         Outcome(here.reports \o below.reports, below.threw)

\* The LintMessage context.report pushes.
LintMessage(cfg, ruleId, language, report) ==
    [ruleId   |-> ruleId,
     severity |-> getRuleSeverity(cfg, ruleId, language),
     message  |-> report.message,
     line     |-> 1,
     column   |-> 1,
     fix      |-> report.fix]

\* Whether the try block of runRules throws for the rule: in rule.create(context) for
\* the rules of createThrows, else in a handler during the traversal.
RuleThrows(file, sourceCode, ruleId, createThrows) ==
    \/ ruleId \in createThrows
    \/ traverseAST(sourceCode.ast, ruleId, sourceCode).threw

\* One pass of the loop of runRules: the messages one rule pushes before its try block
\* ends, normally or by a throw.
RunRule(cfg, file, sourceCode, ruleId, createThrows) ==
    IF ruleId \in createThrows THEN <<>>
    ELSE LET out == traverseAST(sourceCode.ast, ruleId, sourceCode) IN
         [k \in 1..Len(out.reports) |-> LintMessage(cfg, ruleId, file.language, out.reports[k])]

RECURSIVE RunRulesFrom(_, _, _, _, _, _)
RunRulesFrom(cfg, file, sourceCode, languageRules, i, createThrows) ==
    IF i > Len(languageRules) THEN <<>>
    ELSE RunRule(cfg, file, sourceCode, languageRules[i], createThrows)
           \o RunRulesFrom(cfg, file, sourceCode, languageRules, i + 1, createThrows)

\* A runRules without the try/catch: the first rule that throws ends the loop and the
\* exception leaves runRules.
runRules_NoCatch(cfg, file, sourceCode, createThrows) ==
    LET languageRules == getLanguageRules(cfg, file.language)
        throwing == {i \in 1..Len(languageRules) :
                        RuleThrows(file, sourceCode, languageRules[i], createThrows)}
        last == IF throwing = {} THEN Len(languageRules)
                ELSE CHOOSE i \in throwing : \A j \in throwing : i <= j
        ran  == SubSeq(languageRules, 1, last)
    IN [messages |-> RunRulesFrom(cfg, file, sourceCode, ran, 1, createThrows),
        executed |-> ran,
        threw    |-> throwing # {}]

\* runRules: the messages returned, the rules executed (rulesExecuted++ for each), and
\* whether an exception leaves it.
runRules(cfg, file, sourceCode, createThrows) ==
    LET languageRules == getLanguageRules(cfg, file.language) IN
    [messages |-> RunRulesFrom(cfg, file, sourceCode, languageRules, 1, createThrows),
     executed |-> languageRules,
     threw    |-> FALSE]

-----------------------------------------------------------------------------
(* src/src/linter.ts: lintFile                                             *)

\* initializeMetrics(), without the wall-clock durations.
initializeMetrics ==
    [filesProcessed |-> 0, linesProcessed |-> 0, rulesExecuted |-> 0,
     cacheHits |-> 0, cacheMisses |-> 0]

\* content.split('\n').length
LineCount(content) == Cardinality({i \in 1..Len(content) : content[i] = "\n"}) + 1

CountWhere(messages, Test(_)) == Len(SelectSeq(messages, Test))

LintResult(file, messages) ==
    [filePath            |-> file.path,
     messages            |-> messages,
     errorCount          |-> CountWhere(messages, LAMBDA m : m.severity = 2),
     warningCount        |-> CountWhere(messages, LAMBDA m : m.severity = 1),
     fixableErrorCount   |-> CountWhere(messages, LAMBDA m : m.severity = 2 /\ m.fix # Undefined),
     fixableWarningCount |-> CountWhere(messages, LAMBDA m : m.severity = 1 /\ m.fix # Undefined),
     source              |-> file.content]

CacheEntry(hash, result, t) ==
    [hash |-> hash, result |-> result, timestamp |-> t, version |-> "1.0.0"]

LintCacheKey(cfg, file) ==
    createCacheKey(file.path,
                   createContentHash(file.content, getLanguageConfig(cfg, file.language)),
                   "lint")

NoResult == [kind |-> "NoResult"]

\* lintFile up to its first await: the cache lookup. Either the cached result is
\* returned (stage "done") or the miss is counted and parseFile is awaited.
lintFileStart(cfg, mem, disk, ver, t, metrics, file) ==
    With(FileCacheGet(mem, disk, ver, t, LintCacheKey(cfg, file)), LAMBDA lookup :
         IF cfg.cacheEnabled /\ lookup.entry # Absent
           THEN [stage |-> "done", result |-> lookup.entry.result, hit |-> TRUE,
                 memory |-> lookup.memory,
                 metrics |-> [metrics EXCEPT !.cacheHits = @ + 1]]
           ELSE [stage |-> "parse", result |-> NoResult, hit |-> FALSE,
                 memory |-> IF cfg.cacheEnabled THEN lookup.memory ELSE mem,
                 metrics |-> [metrics EXCEPT !.cacheMisses = IF cfg.cacheEnabled THEN @ + 1 ELSE @]])

\* lintFile from the parse result to its second await: runRules is called.
lintFileRules(cfg, metrics, file) ==
    With(runRules(cfg, file, parseFile(file), {}), LAMBDA ran :
         [messages |-> ran.messages, executed |-> ran.executed,
          metrics |-> [metrics EXCEPT !.rulesExecuted = @ + Len(ran.executed)]])

\* lintFile after runRules: the result is built, stored and returned.
lintFileFinish(cfg, mem, disk, ver, t, metrics, file, messages, writeOk) ==
    With(LintResult(file, messages), LAMBDA result :
    With(FileCacheSet(mem, disk, ver, t, LintCacheKey(cfg, file),
                      CacheEntry(LintCacheKey(cfg, file).hash, result, t), writeOk), LAMBDA stored :
         [result  |-> result,
          memory  |-> IF cfg.cacheEnabled THEN stored.memory ELSE mem,
          disk    |-> IF cfg.cacheEnabled THEN stored.disk ELSE disk,
          metrics |-> [metrics EXCEPT !.filesProcessed = @ + 1,
                                      !.linesProcessed = @ + LineCount(file.content)]]))

\* lintFile(file) on a supported language with nothing else running in between: the
\* result, whether it was a cache hit, the rules executed, and the cache and the
\* metrics afterwards.
lintFile(cfg, mem, disk, ver, t, metrics, file, writeOk) ==
    With(lintFileStart(cfg, mem, disk, ver, t, metrics, file), LAMBDA start :
         IF start.stage = "done"
           THEN [result |-> start.result, hit |-> TRUE, executed |-> <<>>,
                 memory |-> start.memory, disk |-> disk, metrics |-> start.metrics]
           ELSE With(lintFileRules(cfg, start.metrics, file), LAMBDA ran :
                With(lintFileFinish(cfg, start.memory, disk, ver, t, ran.metrics, file,
                                    ran.messages, writeOk), LAMBDA done :
                     [result |-> done.result, hit |-> FALSE, executed |-> ran.executed,
                      memory |-> done.memory, disk |-> done.disk, metrics |-> done.metrics])))

-----------------------------------------------------------------------------
(* src/src/formatter.ts: string primitives                                 *)

LowerLetters == {"a", "b", "c", "d", "e", "f", "g", "h", "i", "j", "k", "l", "m", "n", "o", "p", "q", "r", "s", "t", "u", "v", "w", "x", "y", "z"}
UpperLetters == {"A", "B", "C", "D", "E", "F", "G", "H", "I", "J", "K", "L", "M", "N", "O", "P", "Q", "R", "S", "T", "U", "V", "W", "X", "Y", "Z"}
Digits       == {"0", "1", "2", "3", "4", "5", "6", "7", "8", "9"}
Letters      == LowerLetters \cup UpperLetters
WordChars    == Letters \cup Digits \cup {"_"}

\* String.prototype.toLowerCase on one character
ToLowerChar(c) ==
    CASE c = "A" -> "a"
      [] c = "B" -> "b"
      [] c = "C" -> "c"
      [] c = "D" -> "d"
      [] c = "E" -> "e"
      [] c = "F" -> "f"
      [] c = "G" -> "g"
      [] c = "H" -> "h"
      [] c = "I" -> "i"
      [] c = "J" -> "j"
      [] c = "K" -> "k"
      [] c = "L" -> "l"
      [] c = "M" -> "m"
      [] c = "N" -> "n"
      [] c = "O" -> "o"
      [] c = "P" -> "p"
      [] c = "Q" -> "q"
      [] c = "R" -> "r"
      [] c = "S" -> "s"
      [] c = "T" -> "t"
      [] c = "U" -> "u"
      [] c = "V" -> "v"
      [] c = "W" -> "w"
      [] c = "X" -> "x"
      [] c = "Y" -> "y"
      [] c = "Z" -> "z"
      [] OTHER -> c

ToLowerCase(s) == [i \in 1..Len(s) |-> ToLowerChar(s[i])]

\* An item of a regular expression: a character class taken once ("one"), greedily
\* zero or more times ("star") or one or more times ("plus").
Class(chars, rep)    == [neg |-> FALSE, chars |-> chars, rep |-> rep]
NotClass(chars, rep) == [neg |-> TRUE, chars |-> chars, rep |-> rep]
Lit(c)               == Class({c}, "one")

InClass(item, c) == (c \in item.chars) # item.neg

RECURSIVE RunEnd(_, _, _)
\* Where the longest run of characters of the item's class that starts at i ends.
RunEnd(s, i, item) ==
    IF i <= Len(s) /\ InClass(item, s[i]) THEN RunEnd(s, i + 1, item) ELSE i

RECURSIVE MatchItems(_, _, _, _)
\* Matches items k.. of pat at position i of s: the start of each item followed by the
\* end of the match, or <<>> when there is no match. In every pattern of the formatter a
\* repeated class is disjoint from what follows it, so the greedy run is the only candidate.
MatchItems(s, i, pat, k) ==
    IF k > Len(pat) THEN <<i>>
    ELSE LET item == pat[k]
             e    == RunEnd(s, i, item)
             j    == CASE item.rep = "one"  -> IF e > i THEN i + 1 ELSE 0
                       [] item.rep = "plus" -> IF e > i THEN e ELSE 0
                       [] OTHER             -> e
         IN IF j = 0 THEN <<>>
            ELSE LET rest == MatchItems(s, j, pat, k + 1) IN
                 IF rest = <<>> THEN <<>> ELSE <<i>> \o rest

\* An element of a replacement: a literal character, or $n as the item that captures it.
Out(c)   == [group |-> 0, lit |-> c]
Group(n) == [group |-> n, lit |-> ""]

Expand(templ, s, b) ==
    [n \in 1..Len(templ) |-> IF templ[n].group = 0 THEN templ[n].lit ELSE s[b[templ[n].group]]]

RECURSIVE ReplaceFrom(_, _, _, _)
ReplaceFrom(s, i, pat, templ) ==
    IF i > Len(s) THEN <<>>
    ELSE LET b == MatchItems(s, i, pat, 1) IN
         IF b # <<>>
           THEN Expand(templ, s, b) \o ReplaceFrom(s, b[Len(b)], pat, templ)
           ELSE <<s[i]>> \o ReplaceFrom(s, i + 1, pat, templ)

\* String.prototype.replace(/pat/g, templ)
ReplaceAll(s, pat, templ) == ReplaceFrom(s, 1, pat, templ)

\* A replace(/pat/g, templ) to be applied
Replace(pat, templ) == [pat |-> pat, templ |-> templ]

RECURSIVE ReplaceEach(_, _)
\* formatted = formatted.replace(...) for each of the steps in turn
ReplaceEach(s, steps) ==
    IF steps = <<>> THEN s
    ELSE ReplaceEach(ReplaceAll(s, steps[1].pat, steps[1].templ), Tail(steps))

Lits(word) == [i \in 1..Len(word) |-> Lit(word[i])]
Outs(word) == [i \in 1..Len(word) |-> Out(word[i])]

RECURSIVE Split(_, _)
\* String.prototype.split(sep) for a one-character separator
Split(s, sep) ==
    IF \E i \in 1..Len(s) : s[i] = sep
      THEN LET i == CHOOSE i \in 1..Len(s) : s[i] = sep /\ \A j \in 1..(i - 1) : s[j] # sep
           IN <<SubSeq(s, 1, i - 1)>> \o Split(SubSeq(s, i + 1, Len(s)), sep)
      ELSE <<s>>

RECURSIVE Join(_, _)
\* Array.prototype.join(sep)
Join(lines, sep) ==
    IF Len(lines) = 0 THEN <<>>
    ELSE IF Len(lines) = 1 THEN lines[1]
    ELSE lines[1] \o sep \o Join(Tail(lines), sep)

RECURSIVE TrimEnd(_)
TrimEnd(s) ==
    IF Len(s) > 0 /\ s[Len(s)] \in Whitespace THEN TrimEnd(SubSeq(s, 1, Len(s) - 1)) ELSE s

RECURSIVE TrimStart(_)
TrimStart(s) ==
    IF Len(s) > 0 /\ s[1] \in Whitespace THEN TrimStart(Tail(s)) ELSE s

Trim(s) == TrimEnd(TrimStart(s))

EndsWith(s, suffix) ==
    /\ Len(suffix) <= Len(s)
    /\ SubSeq(s, Len(s) - Len(suffix) + 1, Len(s)) = suffix

RECURSIVE Repeat(_, _)
\* String.prototype.repeat
Repeat(s, n) == IF n <= 0 THEN <<>> ELSE s \o Repeat(s, n - 1)

-----------------------------------------------------------------------------
(* src/src/formatter.ts: GlintFormatter                                    *)

Space(rep) == Class(Whitespace, rep)

normalizeLineEndings(content, endOfLine) ==
    With(ReplaceEach(content, <<Replace(<<Lit("\r"), Lit("\n")>>, <<Out("\n")>>),
                               Replace(<<Lit("\r")>>, <<Out("\n")>>)>>), LAMBDA normalized :
         CASE endOfLine = "crlf" -> ReplaceAll(normalized, <<Lit("\n")>>, <<Out("\r"), Out("\n")>>)
           [] endOfLine = "cr"   -> ReplaceAll(normalized, <<Lit("\n")>>, <<Out("\r")>>)
           [] OTHER              -> normalized)

trimTrailingWhitespace(content) ==
    With(Split(content, "\n"), LAMBDA lines :
         Join([i \in 1..Len(lines) |-> TrimEnd(lines[i])], <<"\n">>))

selfClosingTags ==
    {<<"a", "r", "e", "a">>,
     <<"b", "a", "s", "e">>,
     <<"b", "r">>,
     <<"c", "o", "l">>,
     <<"e", "m", "b", "e", "d">>,
     <<"h", "r">>,
     <<"i", "m", "g">>,
     <<"i", "n", "p", "u", "t">>,
     <<"l", "i", "n", "k">>,
     <<"m", "e", "t", "a">>,
     <<"p", "a", "r", "a", "m">>,
     <<"s", "o", "u", "r", "c", "e">>,
     <<"t", "r", "a", "c", "k">>,
     <<"w", "b", "r">>}

S_selfClose == <<"/", ">">>
S_closeTag  == <<"<", "/">>

\* line.match(/<(\w+)/): the first '<' that a word character follows
isSelfClosingTag(line) ==
    LET pat  == <<Lit("<"), Class(WordChars, "plus")>>
        hits == {i \in 1..Len(line) : MatchItems(line, i, pat, 1) # <<>>}
    IN IF hits = {} THEN FALSE
       ELSE LET i == CHOOSE i \in hits : \A j \in hits : i <= j
                b == MatchItems(line, i, pat, 1)
                tagName == ToLowerCase(SubSeq(line, b[2], b[3] - 1))
            IN tagName \in selfClosingTags \/ Includes(line, S_selfClose)

indentChar(formatConfig) ==
    IF formatConfig.indentType = "tabs" THEN <<"\t">> ELSE Repeat(<<" ">>, formatConfig.indentSize)

RECURSIVE HtmlIndentLoop(_, _, _, _)
\* The loop of formatHtmlIndentation from line i on, at indentLevel.
HtmlIndentLoop(lines, i, indentLevel, indent) ==
    IF i > Len(lines) THEN <<>>
    ELSE LET line == Trim(lines[i]) IN
         IF line = <<>> THEN <<line>> \o HtmlIndentLoop(lines, i + 1, indentLevel, indent)
         ELSE LET level == IF StartsWith(line, S_closeTag) /\ ~Includes(line, S_selfClose)
                             THEN Max(0, indentLevel - 1) ELSE indentLevel
                  next  == IF /\ StartsWith(line, <<"<">>)
                              /\ ~StartsWith(line, S_closeTag)
                              /\ ~Includes(line, S_selfClose)
                              /\ ~isSelfClosingTag(line)
                             THEN level + 1 ELSE level
              IN <<Repeat(indent, level) \o line>> \o HtmlIndentLoop(lines, i + 1, next, indent)

formatHtmlIndentation(content, formatConfig) ==
    Join(HtmlIndentLoop(Split(content, "\n"), 1, 0, indentChar(formatConfig)), <<"\n">>)

\* The steps every language formatter ends with.
Finish(formatted, formatConfig) ==
    With(IF formatConfig.trimTrailingWhitespace
           THEN trimTrailingWhitespace(formatted) ELSE formatted, LAMBDA trimmed :
         IF formatConfig.insertFinalNewline /\ ~EndsWith(trimmed, <<"\n">>)
           THEN trimmed \o <<"\n">> ELSE trimmed)

formatHtml(content, formatConfig) ==
    Finish(formatHtmlIndentation(normalizeLineEndings(content, formatConfig.endOfLine), formatConfig),
           formatConfig)

RECURSIVE CssIndentLoop(_, _, _, _)
\* The indentation loop of formatCssStructure from line i on.
CssIndentLoop(lines, i, indentLevel, indent) ==
    IF i > Len(lines) THEN <<>>
    ELSE LET trimmed == Trim(lines[i]) IN
         IF trimmed = <<>> THEN <<trimmed>> \o CssIndentLoop(lines, i + 1, indentLevel, indent)
         ELSE LET level == IF trimmed = <<"}">> THEN Max(0, indentLevel - 1) ELSE indentLevel
                  next  == IF EndsWith(trimmed, <<"{">>) THEN level + 1 ELSE level
              IN <<Repeat(indent, level) \o trimmed>> \o CssIndentLoop(lines, i + 1, next, indent)

\* The replacements of formatCssStructure, in the order they are applied
CssReplacements ==
    <<Replace(<<Space("star"), Lit("{"), Space("star")>>, <<Out(" "), Out("{"), Out("\n")>>),
      Replace(<<Lit(";"), Space("star"), Lit("}")>>, <<Out(";"), Out("\n"), Out("}")>>),
      Replace(<<Lit("}"), Space("star")>>, <<Out("}"), Out("\n"), Out("\n")>>),
      Replace(<<Lit(";"), Space("star")>>, <<Out(";"), Out("\n")>>),
      Replace(<<Lit(":"), Space("star")>>, <<Out(":"), Out(" ")>>)>>

formatCssStructure(content, formatConfig) ==
    Join(CssIndentLoop(Split(ReplaceEach(content, CssReplacements), "\n"), 1, 0,
                       indentChar(formatConfig)), <<"\n">>)

formatCss(content, formatConfig) ==
    Finish(formatCssStructure(normalizeLineEndings(content, formatConfig.endOfLine), formatConfig),
           formatConfig)

RECURSIVE JavaScriptIndentLoop(_, _, _, _)
\* The indentation loop of formatJavaScriptStructure from line i on.
JavaScriptIndentLoop(lines, i, indentLevel, indent) ==
    IF i > Len(lines) THEN <<>>
    ELSE LET trimmed == Trim(lines[i]) IN
         IF trimmed = <<>> THEN <<trimmed>> \o JavaScriptIndentLoop(lines, i + 1, indentLevel, indent)
         ELSE LET level == IF StartsWith(trimmed, <<"}">>) THEN Max(0, indentLevel - 1) ELSE indentLevel
                  next  == IF EndsWith(trimmed, <<"{">>) THEN level + 1 ELSE level
              IN <<Repeat(indent, level) \o trimmed>> \o JavaScriptIndentLoop(lines, i + 1, next, indent)

NotOperator == NotClass({"=", "!", "<", ">"}, "one")
NotEquals   == NotClass({"="}, "one")

\* The replacements of formatJavaScriptStructure, in the order they are applied
JavaScriptReplacements ==
    <<Replace(<<NotOperator, Lit("="), NotEquals>>,
              <<Group(1), Out(" "), Out("="), Out(" "), Group(3)>>),
      Replace(<<NotOperator, Lit("="), Lit("="), NotEquals>>,
              <<Group(1), Out(" "), Out("="), Out("="), Out(" "), Group(4)>>),
      Replace(<<NotOperator, Lit("="), Lit("="), Lit("="), NotEquals>>,
              <<Group(1), Out(" "), Out("="), Out("="), Out("="), Out(" "), Group(5)>>),
      Replace(<<Space("star"), Lit("{"), Space("star")>>, <<Out(" "), Out("{"), Out("\n")>>),
      Replace(<<Lit("}"), Space("star")>> \o Lits(<<"e", "l", "s", "e">>) \o <<Space("star"), Lit("{")>>,
              Outs(<<"}", " ", "e", "l", "s", "e", " ", "{">>)),
      Replace(Lits(<<"f", "u", "n", "c", "t", "i", "o", "n">>) \o <<Space("star"), Lit("(")>>,
              Outs(<<"f", "u", "n", "c", "t", "i", "o", "n", " ", "(">>)),
      Replace(<<Lit(")"), Space("star"), Lit("{")>>, Outs(<<")", " ", "{">>))>>

formatJavaScriptStructure(content, formatConfig) ==
    Join(JavaScriptIndentLoop(Split(ReplaceEach(content, JavaScriptReplacements), "\n"), 1, 0,
                              indentChar(formatConfig)), <<"\n">>)

formatJavaScript(content, formatConfig) ==
    Finish(formatJavaScriptStructure(normalizeLineEndings(content, formatConfig.endOfLine), formatConfig),
           formatConfig)

\* The replacements of formatTypeScript, in the order they are applied
TypeScriptReplacements ==
    <<Replace(<<Lit(":"), Space("star"), Class(Letters, "one")>>, <<Out(":"), Out(" "), Group(3)>>),
      Replace(<<Space("star"), Lit("="), Lit(">"), Space("star")>>, Outs(<<" ", "=", ">", " ">>)),
      Replace(Lits(<<"i", "n", "t", "e", "r", "f", "a", "c", "e">>) \o <<Space("plus"), Class(Letters, "one")>>,
              Outs(<<"i", "n", "t", "e", "r", "f", "a", "c", "e", " ">>) \o <<Group(11)>>),
      Replace(Lits(<<"t", "y", "p", "e">>) \o <<Space("plus"), Class(Letters, "one")>>,
              Outs(<<"t", "y", "p", "e", " ">>) \o <<Group(6)>>)>>

formatTypeScript(content, formatConfig) ==
    ReplaceEach(formatJavaScript(content, formatConfig), TypeScriptReplacements)

\* The outcome of formatByLanguage: the text, or the error it throws.
formatByLanguage(content, language, formatConfig) ==
    CASE language = "html"       -> [threw |-> FALSE, formatted |-> formatHtml(content, formatConfig)]
      [] language = "css"        -> [threw |-> FALSE, formatted |-> formatCss(content, formatConfig)]
      [] language = "javascript" -> [threw |-> FALSE, formatted |-> formatJavaScript(content, formatConfig)]
      [] language = "typescript" -> [threw |-> FALSE, formatted |-> formatTypeScript(content, formatConfig)]
      [] OTHER                   -> [threw |-> TRUE, formatted |-> <<>>]

getLanguageFormattingConfig(cfg, language) ==
    CASE language = "html"       -> cfg.html.formatter
      [] language = "css"        -> cfg.css.formatter
      [] language = "javascript" -> cfg.javascript.formatter
      [] language = "typescript" -> cfg.typescript.formatter
      [] OTHER                   -> cfg.formatting

FormatResult(file, formatted) ==
    [filePath |-> file.path, formatted |-> formatted, changed |-> formatted # file.content]

FormatCacheKey(cfg, file) ==
    createCacheKey(file.path,
                   createContentHash(file.content, getLanguageFormattingConfig(cfg, file.language)),
                   "format")

\* formatFile up to its await: the cache lookup. Either the cached result is returned
\* (stage "done") or the miss is counted and formatByLanguage is awaited.
formatFileStart(cfg, mem, disk, ver, t, metrics, file) ==
    With(FileCacheGet(mem, disk, ver, t, FormatCacheKey(cfg, file)), LAMBDA lookup :
         IF cfg.cacheEnabled /\ lookup.entry # Absent
           THEN [stage |-> "done", result |-> lookup.entry.result, hit |-> TRUE,
                 memory |-> lookup.memory,
                 metrics |-> [metrics EXCEPT !.cacheHits = @ + 1]]
           ELSE [stage |-> "format", result |-> NoResult, hit |-> FALSE,
                 memory |-> IF cfg.cacheEnabled THEN lookup.memory ELSE mem,
                 metrics |-> [metrics EXCEPT !.cacheMisses = IF cfg.cacheEnabled THEN @ + 1 ELSE @]])

\* formatFile after formatByLanguage: the result is built, stored and returned.
formatFileFinish(cfg, mem, disk, ver, t, metrics, file, writeOk) ==
    With(formatByLanguage(file.content, file.language,
                          getLanguageFormattingConfig(cfg, file.language)), LAMBDA done :
    With(FormatResult(file, done.formatted), LAMBDA result :
    With(FileCacheSet(mem, disk, ver, t, FormatCacheKey(cfg, file),
                      CacheEntry(FormatCacheKey(cfg, file).hash, result, t), writeOk), LAMBDA stored :
         [result  |-> result,
          memory  |-> IF cfg.cacheEnabled THEN stored.memory ELSE mem,
          disk    |-> IF cfg.cacheEnabled THEN stored.disk ELSE disk,
          metrics |-> [metrics EXCEPT !.filesProcessed = @ + 1,
                                      !.linesProcessed = @ + LineCount(file.content)]])))

\* formatFile(file) on a supported language with nothing else running in between: the
\* result, whether it was a cache hit, and the cache and the metrics afterwards.
formatFile(cfg, mem, disk, ver, t, metrics, file, writeOk) ==
    With(formatFileStart(cfg, mem, disk, ver, t, metrics, file), LAMBDA start :
         IF start.stage = "done"
           THEN [result |-> start.result, hit |-> TRUE,
                 memory |-> start.memory, disk |-> disk, metrics |-> start.metrics]
           ELSE With(formatFileFinish(cfg, start.memory, disk, ver, t, start.metrics, file, writeOk),
                     LAMBDA done :
                     [result |-> done.result, hit |-> FALSE,
                      memory |-> done.memory, disk |-> done.disk, metrics |-> done.metrics]))

-----------------------------------------------------------------------------
(* src/src/plugin-manager.ts: PluginManager                                *)

\* A Plugin (src/src/types.ts). rules, formatters and processors are optional objects:
\* has* tells whether the field is present, the sequence lists its own entries in order.
Plugin(name, pluginVersion, languages, hasRules, pluginRules, hasFormatters, pluginFormatters, hasProcessors, pluginProcessors) ==
    [name |-> name, version |-> pluginVersion, languages |-> languages,
     hasRules |-> hasRules, rules |-> pluginRules,
     hasFormatters |-> hasFormatters, formatters |-> pluginFormatters,
     hasProcessors |-> hasProcessors, processors |-> pluginProcessors]

Entry(key, entry) == [key |-> key, entry |-> entry]

S_a  == <<"a">>
S_b  == <<"b">>
S_ax == <<"a", "/", "x">>
S_x  == <<"x">>
S_y  == <<"y">>
S_z  == <<"z">>

\* Plugin 'a', with two rules, a formatter and a processor for '.vue'.
Plugin_A1 ==
    Plugin(S_a, "1.0.0", <<"html">>,
           TRUE, <<Entry(S_x, "A1.rules.x"), Entry(S_y, "A1.rules.y")>>,
           TRUE, <<Entry("html", "A1.formatters.html")>>,
           TRUE, <<Entry(".vue", "A1.processors.vue")>>)

\* A later version of plugin 'a': one rule, no formatters and no processors field.
Plugin_A2 ==
    Plugin(S_a, "2.0.0", <<"css">>,
           TRUE, <<Entry(S_x, "A2.rules.x")>>,
           FALSE, <<>>,
           FALSE, <<>>)

\* Plugin 'b': its own processor for '.vue'.
Plugin_B ==
    Plugin(S_b, "1.0.0", <<"css", "javascript">>,
           TRUE, <<Entry(S_x, "B.rules.x")>>,
           TRUE, <<Entry("css", "B.formatters.css")>>,
           TRUE, <<Entry(".vue", "B.processors.vue")>>)

\* Plugin 'a/x': a scoped name.
Plugin_AX ==
    Plugin(S_ax, "1.0.0", <<"css">>,
           TRUE, <<Entry(S_z, "AX.rules.z")>>,
           FALSE, <<>>,
           FALSE, <<>>)

Plugins == {Plugin_A1, Plugin_A2, Plugin_B, Plugin_AX}

PluginNames == {S_a, S_b, S_ax}

\* Map.prototype.delete
MapDelete(m, key) == SelectSeq(m, LAMBDA e : e.key # key)

RECURSIVE MapSetAll(_, _)
\* for (const [key, value] of entries) m.set(key, value)
MapSetAll(m, entries) ==
    IF entries = <<>> THEN m
    ELSE MapSetAll(MapSet(m, Head(entries).key, Head(entries).entry), Tail(entries))

RECURSIVE MapDeleteAll(_, _)
\* for (const key of keys) m.delete(key)
MapDeleteAll(m, keys) ==
    IF keys = <<>> THEN m ELSE MapDeleteAll(MapDelete(m, Head(keys)), Tail(keys))

\* `${plugin.name}/${ruleId}` for each own rule of the plugin
FullRuleIds(plugin) ==
    [i \in 1..Len(plugin.rules) |->
        Entry(SlashJoin(plugin.name, plugin.rules[i].key), plugin.rules[i].entry)]

Keys(entries) == [i \in 1..Len(entries) |-> entries[i].key]

Registry(pluginMap, ruleMap, formatterMap, processorMap) ==
    [plugins |-> pluginMap, rules |-> ruleMap, formatters |-> formatterMap,
     processors |-> processorMap]

registerPlugin(reg, plugin) ==
    Registry(MapSet(reg.plugins, plugin.name, plugin),
             IF plugin.hasRules THEN MapSetAll(reg.rules, FullRuleIds(plugin)) ELSE reg.rules,
             IF plugin.hasFormatters
               THEN MapSet(reg.formatters, plugin.name, MapSetAll(<<>>, plugin.formatters))
               ELSE reg.formatters,
             IF plugin.hasProcessors
               THEN MapSetAll(reg.processors, plugin.processors)
               ELSE reg.processors)

unregisterPlugin(reg, pluginName) ==
    IF ~MapHas(reg.plugins, pluginName) THEN reg
    ELSE LET plugin == MapGet(reg.plugins, pluginName) IN
         Registry(MapDelete(reg.plugins, pluginName),
                  IF plugin.hasRules
                    THEN MapDeleteAll(reg.rules, Keys(FullRuleIds(plugin)))
                    ELSE reg.rules,
                  MapDelete(reg.formatters, pluginName),
                  IF plugin.hasProcessors
                    THEN MapDeleteAll(reg.processors, Keys(plugin.processors))
                    ELSE reg.processors)

\* The entries of this.rules whose plugin (the id up to its first '/') is registered and
\* declares the language.
getRulesForLanguage(reg, language) ==
    SelectSeq(reg.rules,
              LAMBDA e :
                  LET pluginName == SplitSlashFirst(e.key) IN
                  /\ MapHas(reg.plugins, pluginName)
                  /\ language \in Range(MapGet(reg.plugins, pluginName).languages))

\* this.formatters.get(pluginName)?.get(language)
getFormatter(reg, pluginName, language) ==
    IF MapHas(reg.formatters, pluginName) /\ MapHas(MapGet(reg.formatters, pluginName), language)
      THEN MapGet(MapGet(reg.formatters, pluginName), language)
      ELSE Undefined

\* this.processors.get(extension)
getProcessor(reg, extension) ==
    IF MapHas(reg.processors, extension) THEN MapGet(reg.processors, extension) ELSE Undefined

\* this.rules.get(ruleId)
getRule(reg, ruleId) ==
    IF MapHas(reg.rules, ruleId) THEN MapGet(reg.rules, ruleId) ELSE Undefined

RECURSIVE SumSizes(_)
SumSizes(formatterMap) ==
    IF formatterMap = <<>> THEN 0
    ELSE Len(Head(formatterMap).entry) + SumSizes(Tail(formatterMap))

getPluginStats(reg) ==
    [totalPlugins    |-> Len(reg.plugins),
     totalRules      |-> Len(reg.rules),
     totalFormatters |-> SumSizes(reg.formatters),
     totalProcessors |-> Len(reg.processors),
     pluginsByLanguage |->
        [language \in SupportedLanguages |->
            Keys(SelectSeq(reg.plugins, LAMBDA e : language \in Range(e.entry.languages)))]]

S_c == <<"c">>

\* Plugins of a malformed shape: an empty name, an empty version, no version at all,
\* and a declared language outside html, css, javascript, typescript.
Plugin_EmptyName ==
    Plugin(<<>>, "1.0.0", <<"html">>, TRUE, <<Entry(S_x, "EmptyName.rules.x")>>, FALSE, <<>>, FALSE, <<>>)

Plugin_EmptyVersion ==
    Plugin(S_c, "", <<"html">>, TRUE, <<Entry(S_x, "EmptyVersion.rules.x")>>, FALSE, <<>>, FALSE, <<>>)

Plugin_NoVersion ==
    Plugin(S_c, Undefined, <<"css">>, TRUE, <<Entry(S_y, "NoVersion.rules.y")>>, FALSE, <<>>, FALSE, <<>>)

Plugin_Python ==
    Plugin(S_c, "1.0.0", <<"python">>, TRUE, <<Entry(S_z, "Python.rules.z")>>, FALSE, <<>>, FALSE, <<>>)

MalformedPlugins == {Plugin_EmptyName, Plugin_EmptyVersion, Plugin_NoVersion, Plugin_Python}

\* typeof plugin.name === 'string' && typeof plugin.version === 'string'
\*   && Array.isArray(plugin.languages) && plugin.languages.every(supported)
\* A name is always a string here; a version is a string or undefined.
isValidPlugin(plugin) ==
    /\ plugin.version # Undefined
    /\ \A i \in 1..Len(plugin.languages) : plugin.languages[i] \in SupportedLanguages

S_x_html == S_html \o S_slash \o S_x

\* PluginManager.inferLanguageFromRuleId
inferLanguageFromRuleId(ruleId) ==
    IF Includes(ruleId, S_html) THEN "html"
    ELSE IF Includes(ruleId, S_css) THEN "css"
    ELSE IF Includes(ruleId, S_ts) \/ Includes(ruleId, S_typescript) THEN "typescript"
    ELSE IF Includes(ruleId, S_js) \/ Includes(ruleId, S_javascript) THEN "javascript"
    ELSE "null"

\* PluginManager.getRuleSeverity
PluginManager_getRuleSeverity(cfg, ruleId) ==
    IF SplitSlashLength(ruleId) < 2 THEN 1
    ELSE LET language == inferLanguageFromRuleId(ruleId) IN
         IF language = "null" THEN 1
         ELSE LET ruleSeverity == ConfiguredSeverity(getLanguageConfig(cfg, language).rules, ruleId) IN
              IF ruleSeverity = "error" THEN 2
              ELSE IF ruleSeverity = "warn" THEN 1
              ELSE 1

\* PluginManager.executeRule: `outcome` is what rule.create and the traversal do for the
\* plugin's rule on this tree (the descriptors reported, and whether it then throws); a
\* throw is caught. Throws itself when the rule is not registered.
executeRule(reg, cfg, ruleId, outcome) ==
    IF ~MapHas(reg.rules, ruleId) THEN [threw |-> TRUE, messages |-> <<>>]
    ELSE [threw    |-> FALSE,
          messages |-> [k \in 1..Len(outcome.reports) |->
                           [ruleId   |-> ruleId,
                            severity |-> PluginManager_getRuleSeverity(cfg, ruleId),
                            message  |-> outcome.reports[k].message,
                            line     |-> 1,
                            column   |-> 1,
                            fix      |-> outcome.reports[k].fix]]]

-----------------------------------------------------------------------------
(* src/src/linter.ts lintFiles, src/src/formatter.ts formatFiles            *)

\* The fallback of `this.config.maxWorkers || 4`
DefaultMaxWorkers == 4

\* this.config.maxWorkers || 4
ChunkSize(cfg) == IF cfg.maxWorkers = 0 THEN DefaultMaxWorkers ELSE cfg.maxWorkers

RECURSIVE chunkArray(_, _)
\* chunkArray for a positive chunkSize
chunkArray(array, chunkSize) ==
    IF array = <<>> THEN <<>>
    ELSE IF Len(array) <= chunkSize THEN <<array>>
    ELSE <<SubSeq(array, 1, chunkSize)>> \o chunkArray(SubSeq(array, chunkSize + 1, Len(array)), chunkSize)

\* A per-file operation of a batch: where it stands, and its result once it has one.
Task(stage, file, result, messages, writeOk) ==
    [stage |-> stage, file |-> file, result |-> result, messages |-> messages, writeOk |-> writeOk]

\* lintFile(file) or formatFile(file), whichever the batch runs, up to its first await.
FileStart(operation, cfg, mem, disk, ver, t, metrics, file) ==
    IF operation = "lint"
      THEN lintFileStart(cfg, mem, disk, ver, t, metrics, file)
      ELSE formatFileStart(cfg, mem, disk, ver, t, metrics, file)

RECURSIVE StartChunk(_, _, _, _, _, _, _, _, _, _)
\* chunk.map(file => this.lintFile(file)): every call of the chunk runs to its first
\* await, one after the other. The tasks, and the memory tier and the metrics they leave.
StartChunk(operation, cfg, mem, disk, ver, t, metrics, chunk, writes, i) ==
    IF i > Len(chunk) THEN [tasks |-> <<>>, memory |-> mem, metrics |-> metrics]
    ELSE With(FileStart(operation, cfg, mem, disk, ver, t, metrics, chunk[i]), LAMBDA start :
         With(StartChunk(operation, cfg, start.memory, disk, ver, t, start.metrics,
                         chunk, writes, i + 1), LAMBDA rest :
              [tasks   |-> <<Task(start.stage, chunk[i], start.result, <<>>, writes[i])>> \o rest.tasks,
               memory  |-> rest.memory,
               metrics |-> rest.metrics]))

RECURSIVE RunSequential(_, _, _, _, _, _, _, _, _, _)
\* for (const file of files) results.push(await this.lintFile(file))
RunSequential(operation, cfg, mem, disk, ver, t, metrics, files, writes, i) ==
    IF i > Len(files) THEN [results |-> <<>>, memory |-> mem, disk |-> disk, metrics |-> metrics]
    ELSE With(IF operation = "lint"
                THEN lintFile(cfg, mem, disk, ver, t, metrics, files[i], writes[i])
                ELSE formatFile(cfg, mem, disk, ver, t, metrics, files[i], writes[i]), LAMBDA one :
         With(RunSequential(operation, cfg, one.memory, one.disk, ver, t, one.metrics,
                            files, writes, i + 1), LAMBDA rest :
              [results |-> <<one.result>> \o rest.results,
               memory  |-> rest.memory,
               disk    |-> rest.disk,
               metrics |-> rest.metrics]))

\* A chunk whose Promise.all does not wait for any of its operations.
Pending_None(tasks) == <<>>

\* The positions in the task list of the tasks that wait for a microtask to continue.
Pending(tasks) == SelectSeq([i \in 1..Len(tasks) |-> i], LAMBDA i : tasks[i].stage # "done")

-----------------------------------------------------------------------------
(* The state machines                                                      *)

NoCall == [operation |-> "none"]
NoGet  == [kind |-> "none"]

\* The calls made on the cache directly: the stamped entry of the last set of every key,
\* the last call, whether every call so far was a set, and whether the write of the last
\* set of every key succeeded.
NoHistory == [last |-> <<>>, op |-> [kind |-> "none"], onlySets |-> TRUE, wrote |-> <<>>]

\* A fresh process on an empty cache directory.
InitCache ==
    /\ memoryCache = <<>>
    /\ diskCache = [f \in FileNames |-> NoFile]
    /\ version = "1.0.0"
    /\ now = 0
    /\ got = NoGet
    /\ history = NoHistory

InitExec ==
    /\ config = ConfigA
    /\ linterMetrics = initializeMetrics
    /\ formatterMetrics = initializeMetrics
    /\ call = NoCall
    /\ prevCall = NoCall
    /\ lookedUp = {}
    /\ calls = 0

NoOp    == [kind |-> "none"]
NoRun   == [phase |-> "none"]
NoBatch == [phase |-> "none"]
NoEngine == [phase |-> "none"]

InitRegistry ==
    /\ plugins = <<>>
    /\ rules = <<>>
    /\ formatters = <<>>
    /\ processors = <<>>
    /\ lastOp = NoOp

Init == InitCache /\ InitExec /\ InitRegistry /\ run = NoRun /\ batch = NoBatch /\ engine = NoEngine

\* linter.lintFile(file)
LintFileCall(file, writeOk) ==
    /\ calls' = calls + 1
    /\ \E r \in {lintFile(config, memoryCache, diskCache, version, now, linterMetrics, file, writeOk)} :
       /\ memoryCache' = r.memory
       /\ diskCache' = r.disk
       /\ linterMetrics' = r.metrics
       /\ prevCall' = call
       /\ call' = [operation |-> "lint", file |-> file, config |-> config,
                   result |-> r.result, hit |-> r.hit, executed |-> r.executed,
                   key |-> LintCacheKey(config, file),
                   before |-> linterMetrics, after |-> r.metrics]
       /\ lookedUp' = IF call = NoCall THEN {} ELSE lookedUp \cup {call.key}
    /\ UNCHANGED <<version, now, got, config, formatterMetrics, registryVars, run, batch, engine, history>>

\* formatter.formatFile(file)
FormatFileCall(file, writeOk) ==
    /\ calls' = calls + 1
    /\ \E r \in {formatFile(config, memoryCache, diskCache, version, now, formatterMetrics, file, writeOk)} :
       /\ memoryCache' = r.memory
       /\ diskCache' = r.disk
       /\ formatterMetrics' = r.metrics
       /\ prevCall' = call
       /\ call' = [operation |-> "format", file |-> file, config |-> config,
                   result |-> r.result, hit |-> r.hit, executed |-> <<>>,
                   key |-> FormatCacheKey(config, file),
                   before |-> formatterMetrics, after |-> r.metrics]
       /\ lookedUp' = IF call = NoCall THEN {} ELSE lookedUp \cup {call.key}
    /\ UNCHANGED <<version, now, got, config, linterMetrics, registryVars, run, batch, engine, history>>

LintFile(file, writeOk) == calls < MaxCalls /\ LintFileCall(file, writeOk)

FormatFile(file, writeOk) == calls < MaxCalls /\ FormatFileCall(file, writeOk)

\* engine.updateConfig(newConfig): a new linter and a new formatter on the same cache.
UpdateConfig(newConfig) ==
    /\ newConfig # config
    /\ config' = newConfig
    /\ linterMetrics' = initializeMetrics
    /\ formatterMetrics' = initializeMetrics
    /\ UNCHANGED <<cacheVars, call, prevCall, lookedUp, calls, registryVars, run, batch, engine, history>>

\* Time passes.
AdvanceClock(hours) ==
    /\ now + hours * HourMs <= MaxClockHours * HourMs
    /\ now' = now + hours * HourMs
    /\ UNCHANGED <<memoryCache, diskCache, version, got, execVars, calls, registryVars, run, batch, engine, history>>

Next ==
    \/ \E file \in Files, writeOk \in BOOLEAN : LintFile(file, writeOk)
    \/ \E file \in FormatFiles, writeOk \in BOOLEAN : FormatFile(file, writeOk)
    \/ \E newConfig \in Configs : UpdateConfig(newConfig)
    \/ \E hours \in {25} : AdvanceClock(hours)

Spec == Init /\ [][Next]_vars

\* Calls around updateConfig: up to MaxUpdateCalls lintFile / formatFile calls on html
\* files, whose language section ConfigA and ConfigB configure differently.
MaxUpdateCalls == 3

NextUpdate ==
    \/ \E file \in {f \in Files : f.language = "html"}, writeOk \in BOOLEAN :
          calls < MaxUpdateCalls /\ LintFileCall(file, writeOk)
    \/ \E file \in {f \in FormatFiles : f.language = "html"}, writeOk \in BOOLEAN :
          calls < MaxUpdateCalls /\ FormatFileCall(file, writeOk)
    \/ \E newConfig \in Configs : UpdateConfig(newConfig)

SpecUpdate == Init /\ [][NextUpdate]_vars

-----------------------------------------------------------------------------
(* FileCache used directly: set, get, clear, across restarts               *)

\* Keys as the linter builds them; the first two share a file name.
CacheKeys ==
    {LintCacheKey(ConfigA, FileInfo("test.html", Content_a, "html")),
     LintCacheKey(ConfigA, FileInfo("test.html", Content_b, "html")),
     LintCacheKey(ConfigA, FileInfo("test.css", Content_a, "css"))}

Payloads == {"result1", "result2"}

Versions == {"1.0.0", "1.1.0"}

\* cache.set(key, { hash, result, timestamp: Date.now(), version: '1.0.0' })
CacheSet(key, result, writeOk) ==
    /\ calls < MaxCacheOps
    /\ calls' = calls + 1
    /\ \E r \in {FileCacheSet(memoryCache, diskCache, version, now, key,
                              CacheEntry(key.hash, result, now), writeOk)} :
       /\ memoryCache' = r.memory
       /\ diskCache' = r.disk
       /\ history' = [last     |-> (key :> MapGet(r.memory, key)) @@ history.last,
                      op       |-> [kind |-> "set", key |-> key, writeOk |-> writeOk,
                                    threw |-> r.threw],
                      onlySets |-> history.onlySets,
                      wrote    |-> (key :> writeOk) @@ history.wrote]
    /\ UNCHANGED <<version, now, got, execVars, registryVars, run, batch, engine>>

\* cache.get(key); cache.has(key) is get(key) !== undefined
CacheGet(key) ==
    /\ calls < MaxCacheOps
    /\ calls' = calls + 1
    /\ \E r \in {FileCacheGet(memoryCache, diskCache, version, now, key)} :
       /\ memoryCache' = r.memory
       /\ got' = [kind |-> "get", key |-> key, entry |-> r.entry, at |-> now,
                  threw |-> r.threw, after |-> history.op, onlySets |-> history.onlySets,
                  inMemory |-> MapHas(memoryCache, key)]
    /\ history' = [history EXCEPT !.op = [kind |-> "get", key |-> key], !.onlySets = FALSE]
    /\ UNCHANGED <<diskCache, version, now, execVars, registryVars, run, batch, engine>>

\* cache.clear(): the memory tier only.
CacheClear ==
    /\ calls < MaxCacheOps
    /\ calls' = calls + 1
    /\ memoryCache' = <<>>
    /\ history' = [history EXCEPT !.op = [kind |-> "clear", disk |-> diskCache],
                                  !.onlySets = FALSE]
    /\ UNCHANGED <<diskCache, version, now, got, execVars, registryVars, run, batch, engine>>

\* The process ends and a new one constructs FileCache(cacheDir, newVersion) on the
\* same directory.
Restart(newVersion) ==
    /\ calls < MaxCacheOps
    /\ calls' = calls + 1
    /\ memoryCache' = <<>>
    /\ version' = newVersion
    /\ got' = NoGet
    /\ history' = [history EXCEPT !.op = [kind |-> "restart"], !.onlySets = FALSE]
    /\ UNCHANGED <<diskCache, now, execVars, registryVars, run, batch, engine>>

\* Something other than the cache damages a cache file: reading or parsing it throws.
CorruptFile(name) ==
    /\ calls < MaxCacheOps
    /\ calls' = calls + 1
    /\ diskCache[name] # Corrupt
    /\ diskCache' = [diskCache EXCEPT ![name] = Corrupt]
    /\ history' = [history EXCEPT !.op = [kind |-> "corrupt"], !.onlySets = FALSE]
    /\ UNCHANGED <<memoryCache, version, now, got, execVars, registryVars, run, batch, engine>>

NextCache ==
    \/ \E key \in CacheKeys, result \in Payloads, writeOk \in BOOLEAN : CacheSet(key, result, writeOk)
    \/ \E key \in CacheKeys : CacheGet(key)
    \/ CacheClear
    \/ \E newVersion \in Versions : Restart(newVersion)
    \/ \E hours \in {24, 25} : AdvanceClock(hours)

SpecCache == Init /\ [][NextCache]_vars

\* The cache under write failures and damaged files: sets, gets, clears and the damage.
NextCacheErrors ==
    \/ \E key \in CacheKeys, result \in Payloads, writeOk \in BOOLEAN : CacheSet(key, result, writeOk)
    \/ \E key \in CacheKeys : CacheGet(key)
    \/ CacheClear
    \/ \E name \in FileNames : CorruptFile(name)

SpecCacheErrors == Init /\ [][NextCacheErrors]_vars

\* get, set, has and clear with the keys of the linter and the empty key.
NextCapacity ==
    \/ \E key \in CacheKeys \cup {EmptyKey}, result \in Payloads, writeOk \in BOOLEAN :
          CacheSet(key, result, writeOk)
    \/ \E key \in CacheKeys \cup {EmptyKey} : CacheGet(key)
    \/ CacheClear

SpecCapacity == Init /\ [][NextCapacity]_vars

\* One process that sets and gets while time passes: a key that was set leaves the fast
\* tier by eviction only.
NextEviction ==
    \/ \E key \in CacheKeys, result \in Payloads, writeOk \in BOOLEAN : CacheSet(key, result, writeOk)
    \/ \E key \in CacheKeys : CacheGet(key)
    \/ \E hours \in {24, 25} : AdvanceClock(hours)

SpecEviction == Init /\ [][NextEviction]_vars

-----------------------------------------------------------------------------
(* PluginManager: registerPlugin / unregisterPlugin in any order            *)

CurrentRegistry == Registry(plugins, rules, formatters, processors)

RegisterPlugin(plugin) ==
    /\ LET reg == registerPlugin(CurrentRegistry, plugin) IN
       /\ plugins' = reg.plugins
       /\ rules' = reg.rules
       /\ formatters' = reg.formatters
       /\ processors' = reg.processors
    /\ lastOp' = [kind |-> "register", plugin |-> plugin, before |-> CurrentRegistry,
                  threw |-> FALSE]
    /\ UNCHANGED <<cacheVars, execVars, calls, run, batch, engine, history>>

UnregisterPlugin(pluginName) ==
    /\ LET reg == unregisterPlugin(CurrentRegistry, pluginName) IN
       /\ plugins' = reg.plugins
       /\ rules' = reg.rules
       /\ formatters' = reg.formatters
       /\ processors' = reg.processors
    /\ lastOp' = [kind |-> "unregister", name |-> pluginName, before |-> CurrentRegistry]
    /\ UNCHANGED <<cacheVars, execVars, calls, run, batch, engine, history>>

NextRegistry ==
    \/ \E plugin \in Plugins : RegisterPlugin(plugin)
    \/ \E pluginName \in PluginNames : UnregisterPlugin(pluginName)

SpecRegistry == Init /\ [][NextRegistry]_vars

\* registerPlugin / unregisterPlugin called with well-formed and with malformed plugins.
NextRegistration ==
    \/ \E plugin \in {Plugin_B} \cup MalformedPlugins : RegisterPlugin(plugin)
    \/ \E pluginName \in {S_b, S_c, <<>>} : UnregisterPlugin(pluginName)

SpecRegistration == Init /\ [][NextRegistration]_vars

-----------------------------------------------------------------------------
(* runRules and executeRule on given trees and rule configurations          *)

Severities == {"error", "warn", "off", "bogus"}

\* The rule's name as the default configuration spells it: the id after its first '/'.
PlainName(ruleId) == SubSeq(ruleId, IndexOf(ruleId, "/") + 1, Len(ruleId))

BuiltinRules ==
    {Rule_html_no_duplicate_attributes, Rule_html_require_alt, Rule_css_no_duplicate_properties,
     Rule_js_no_unused_vars, Rule_js_prefer_const, Rule_ts_no_explicit_any}

RulesOf(language) == {ruleId \in BuiltinRules : BuiltinLanguage(ruleId) = language}

\* Rule configurations of one language: the default one, none, and one rule set to
\* each severity under its plain name or under its full id.
RuleConfigs(language) ==
    {getLanguageConfig(ConfigA, language).rules, <<>>}
      \cup {(key :> severity) : key \in UNION {{ruleId, PlainName(ruleId)} : ruleId \in RulesOf(language)},
                                severity \in Severities}

WithRules(cfg, language, ruleConfig) ==
    CASE language = "html"       -> [cfg EXCEPT !.html.rules = ruleConfig]
      [] language = "css"        -> [cfg EXCEPT !.css.rules = ruleConfig]
      [] language = "javascript" -> [cfg EXCEPT !.javascript.rules = ruleConfig]
      [] language = "typescript" -> [cfg EXCEPT !.typescript.rules = ruleConfig]

\* Trees a parser for the language hands to runRules.
Trees(language) ==
    CASE language = "html" ->
           {HTMLDocument(<<>>),
            HTMLDocument(<<HTMLElement("img", <<>>, TRUE, <<>>),
                           HTMLElement("div", <<S_id, S_id>>, TRUE, <<>>)>>),
            HTMLDocument(<<HTMLElement("div", <<>>, FALSE, <<>>),
                           HTMLElement("img", <<S_id>>, TRUE, <<>>)>>),
            HTMLDocument(<<HTMLElement("div", <<S_id, S_id>>, TRUE,
                                       <<HTMLElement("img", <<>>, FALSE, <<>>)>>),
                           HTMLElement("img", <<S_alt>>, TRUE, <<>>)>>),
            HTMLDocument(<<HTMLElement("div", <<S_id, S_id>>, TRUE,
                                       <<HTMLElement("img", <<S_color, S_color>>, TRUE, <<>>)>>),
                           HTMLElement("div", <<S_alt, S_alt>>, TRUE, <<>>)>>)}
      [] language = "css" ->
           {CSSStyleSheet(<<>>),
            CSSStyleSheet(<<CSSRule(<<S_color, S_color>>, TRUE)>>),
            CSSStyleSheet(<<CSSRule(<<>>, FALSE), CSSRule(<<S_color, S_color>>, TRUE)>>)}
      [] language = "javascript" ->
           {Program(<<VariableDeclaration("let", <<VariableDeclarator(S_x)>>)>>)}
      [] language = "typescript" ->
           {Program(<<TSAnyKeyword>>)}

RuleFiles ==
    {FileInfo("test.html", Content_a, "html"),
     FileInfo("test.css", Content_a, "css"),
     FileInfo("test.js", Content_ab, "javascript"),
     FileInfo("test.ts", Content_a, "typescript")}

\* No factory throws, or the factory of one rule of the language does.
CreateThrows(language) == {{}} \cup {{ruleId} : ruleId \in RulesOf(language)}

LintRuns ==
    UNION {{[phase |-> "input", kind |-> "lint",
             cfg |-> WithRules(ConfigA, file.language, ruleConfig),
             file |-> file,
             sourceCode |-> SourceCode(file.content, tree),
             createThrows |-> createThrows] :
               ruleConfig \in RuleConfigs(file.language),
               tree \in Trees(file.language),
               createThrows \in CreateThrows(file.language)} : file \in RuleFiles}

Plugin_Html ==
    Plugin(S_html, "1.0.0", <<"html">>,
           TRUE, <<Entry(S_x, "Html.rules.x")>>,
           FALSE, <<>>,
           FALSE, <<>>)

EmptyRegistry == Registry(<<>>, <<>>, <<>>, <<>>)

PluginRuns ==
    {[phase |-> "input", kind |-> "plugin",
      cfg |-> WithRules(ConfigA, "html", ruleConfig),
      registry |-> registerPlugin(registerPlugin(EmptyRegistry, Plugin_A1), Plugin_Html),
      ruleId |-> ruleId,
      outcome |-> outcome] :
        ruleConfig \in {HtmlRules, <<>>} \cup {(S_x_html :> severity) : severity \in Severities},
        ruleId \in {S_x_html, SlashJoin(S_a, S_x), SlashJoin(S_b, S_x)},
        outcome \in {Outcome(<<Report(<<"plugin rule", <<>>>>, Undefined)>>, FALSE),
                     Outcome(<<Report(<<"plugin rule", <<>>>>, FixStub)>>, TRUE),
                     Outcome(<<>>, TRUE)}}

InitRules ==
    /\ InitCache
    /\ InitExec
    /\ InitRegistry
    /\ batch = NoBatch
    /\ engine = NoEngine
    /\ run \in LintRuns \cup PluginRuns

\* The part of lintFile after parsing, on a cache miss: runRules and the LintResult.
RunRules ==
    /\ run.phase = "input"
    /\ run.kind = "lint"
    /\ LET out == runRules(run.cfg, run.file, run.sourceCode, run.createThrows) IN
       run' = [phase |-> "done", kind |-> "lint", cfg |-> run.cfg, file |-> run.file,
               sourceCode |-> run.sourceCode, createThrows |-> run.createThrows,
               out |-> out, result |-> LintResult(run.file, out.messages)]
    /\ UNCHANGED <<cacheVars, execVars, calls, registryVars, batch, engine, history>>

\* pluginManager.executeRule(ruleId, context, sourceCode)
ExecuteRule ==
    /\ run.phase = "input"
    /\ run.kind = "plugin"
    /\ run' = [phase |-> "done", kind |-> "plugin", cfg |-> run.cfg, registry |-> run.registry,
               ruleId |-> run.ruleId, outcome |-> run.outcome,
               out |-> executeRule(run.registry, run.cfg, run.ruleId, run.outcome)]
    /\ UNCHANGED <<cacheVars, execVars, calls, registryVars, batch, engine, history>>

NextRules == RunRules \/ ExecuteRule

SpecRules == InitRules /\ [][NextRules]_vars

-----------------------------------------------------------------------------
(* lintFiles / formatFiles on a list of files                               *)

\* The most files in a batch.
MaxBatch == 3

\* Two contents of one path whose cache keys share a cache file, and a file of another
\* path whose keys share it too.
BatchFiles ==
    {FileInfo("test.html", Content_a, "html"),
     FileInfo("test.html", Content_b, "html"),
     FileInfo("test.css", Content_ab, "css")}

FileLists == UNION {[1..n -> BatchFiles] : n \in 1..MaxBatch}

\* Engines that differ in config.parallel and config.maxWorkers.
BatchConfigs ==
    {[ConfigA EXCEPT !.parallel = parallel, !.maxWorkers = maxWorkers] :
        parallel \in BOOLEAN, maxWorkers \in {0, 1, 2}}

InitBatch ==
    /\ InitCache
    /\ InitRegistry
    /\ config \in BatchConfigs
    /\ linterMetrics = initializeMetrics
    /\ formatterMetrics = initializeMetrics
    /\ call = NoCall
    /\ prevCall = NoCall
    /\ lookedUp = {}
    /\ calls = 0
    /\ run = NoRun
    /\ batch = NoBatch
    /\ engine = NoEngine

MetricsOf(operation) == IF operation = "lint" THEN linterMetrics ELSE formatterMetrics

\* The batch record: what was asked, what sequential processing of the same list on the
\* same cache returns, and the progress of the call.
\*   started: how many files have been handed to lintFile / formatFile
\*   tasks:   the per-file operations of the current chunk
\*   queue:   the positions in tasks of the continuations, in the order the microtask
\*            queue runs them
\*   results: the results pushed so far
Batch(phase, operation, files, writes, sequential, started, tasks, queue, results) ==
    [phase |-> phase, operation |-> operation, files |-> files, writes |-> writes,
     sequential |-> sequential, started |-> started, tasks |-> tasks, queue |-> queue,
     results |-> results]

\* lintFiles(files) / formatFiles(files) up to its first await. In parallel mode the
\* first chunk is started; otherwise the files are processed one after the other.
StartBatch(operation, files, writes) ==
    /\ batch = NoBatch
    /\ \E sequential \in {RunSequential(operation, config, memoryCache, diskCache, version, now,
                                          MetricsOf(operation), files, writes, 1)} :
       IF config.parallel /\ Len(files) > 1
         THEN \E chunk \in {chunkArray(files, ChunkSize(config))[1]} :
              \E begun \in {StartChunk(operation, config, memoryCache, diskCache, version, now,
                                       MetricsOf(operation), chunk, writes, 1)} :
                 /\ batch' = Batch("parallel", operation, files, writes, sequential.results,
                                   Len(chunk), begun.tasks, Pending(begun.tasks), <<>>)
                 /\ memoryCache' = begun.memory
                 /\ diskCache' = diskCache
                 /\ IF operation = "lint"
                      THEN linterMetrics' = begun.metrics /\ UNCHANGED formatterMetrics
                      ELSE formatterMetrics' = begun.metrics /\ UNCHANGED linterMetrics
         ELSE /\ batch' = Batch("done", operation, files, writes, sequential.results,
                                Len(files), <<>>, <<>>, sequential.results)
              /\ memoryCache' = sequential.memory
              /\ diskCache' = sequential.disk
              /\ IF operation = "lint"
                   THEN linterMetrics' = sequential.metrics /\ UNCHANGED formatterMetrics
                   ELSE formatterMetrics' = sequential.metrics /\ UNCHANGED linterMetrics
    /\ UNCHANGED <<version, now, got, config, call, prevCall, lookedUp, calls, registryVars, run, engine, history>>

\* The microtask at the head of the queue: the continuation of one lintFile / formatFile
\* of the chunk after its await.
RunMicrotask ==
    /\ batch.phase = "parallel"
    /\ batch.queue # <<>>
    /\ \E i \in {Head(batch.queue)} :
       \E task \in {batch.tasks[i]} :
       CASE task.stage = "parse" ->
              \E ran \in {lintFileRules(config, linterMetrics, task.file)} :
              /\ batch' = [batch EXCEPT !.tasks[i].stage = "rules",
                                        !.tasks[i].messages = ran.messages,
                                        !.queue = Append(Tail(@), i)]
              /\ linterMetrics' = ran.metrics
              /\ UNCHANGED <<memoryCache, diskCache, formatterMetrics>>
         [] task.stage = "rules" ->
              \E done \in {lintFileFinish(config, memoryCache, diskCache, version, now, linterMetrics,
                                            task.file, task.messages, task.writeOk)} :
              /\ batch' = [batch EXCEPT !.tasks[i].stage = "done",
                                        !.tasks[i].result = done.result,
                                        !.queue = Tail(@)]
              /\ memoryCache' = done.memory
              /\ diskCache' = done.disk
              /\ linterMetrics' = done.metrics
              /\ UNCHANGED formatterMetrics
         [] task.stage = "format" ->
              \E done \in {formatFileFinish(config, memoryCache, diskCache, version, now,
                                              formatterMetrics, task.file, task.writeOk)} :
              /\ batch' = [batch EXCEPT !.tasks[i].stage = "done",
                                        !.tasks[i].result = done.result,
                                        !.queue = Tail(@)]
              /\ memoryCache' = done.memory
              /\ diskCache' = done.disk
              /\ formatterMetrics' = done.metrics
              /\ UNCHANGED linterMetrics
    /\ UNCHANGED <<version, now, got, config, call, prevCall, lookedUp, calls, registryVars, run, engine, history>>

\* Promise.all of the chunk has resolved: its results are pushed, and the next chunk is
\* started or the results are returned.
ChunkResolved ==
    /\ batch.phase = "parallel"
    /\ batch.queue = <<>>
    /\ \E results \in {batch.results \o [i \in 1..Len(batch.tasks) |-> batch.tasks[i].result]},
          remaining \in {SubSeq(batch.files, batch.started + 1, Len(batch.files))},
          writes \in {SubSeq(batch.writes, batch.started + 1, Len(batch.files))} :
       IF remaining = <<>>
         THEN /\ batch' = [batch EXCEPT !.phase = "done", !.tasks = <<>>, !.results = results]
              /\ UNCHANGED <<memoryCache, linterMetrics, formatterMetrics>>
         ELSE \E chunk \in {chunkArray(remaining, ChunkSize(config))[1]} :
              \E begun \in {StartChunk(batch.operation, config, memoryCache, diskCache, version, now,
                                       MetricsOf(batch.operation), chunk, writes, 1)} :
                 /\ batch' = [batch EXCEPT !.started = @ + Len(chunk),
                                           !.tasks = begun.tasks,
                                           !.queue = Pending(begun.tasks),
                                           !.results = results]
                 /\ memoryCache' = begun.memory
                 /\ IF batch.operation = "lint"
                      THEN linterMetrics' = begun.metrics /\ UNCHANGED formatterMetrics
                      ELSE formatterMetrics' = begun.metrics /\ UNCHANGED linterMetrics
    /\ UNCHANGED <<diskCache, version, now, got, config, call, prevCall, lookedUp, calls,
                   registryVars, run, engine, history>>

NextBatch ==
    \/ \E operation \in {"lint", "format"}, files \in FileLists :
          \E writes \in [1..Len(files) -> BOOLEAN] : StartBatch(operation, files, writes)
    \/ RunMicrotask
    \/ ChunkResolved

SpecBatch == InitBatch /\ [][NextBatch]_vars

-----------------------------------------------------------------------------
(* GlintEngine: lintFiles, formatFiles, lintAndFormat, checkFiles, getMetrics, *)
(* resetMetrics on a list of loaded, enabled files                           *)

\* The most files an orchestrator operation is given, the most operations an engine
\* runs, and the most getMetrics calls made on it.
MaxEngineFiles == 2
MaxEngineRuns == 2
MaxMetricsReads == 2

EngineFiles ==
    {FileInfo("test.html", Content_a, "html"),
     FileInfo("test.css", Content_a, "css")}

EngineFileLists == UNION {[1..n -> EngineFiles] : n \in 1..MaxEngineFiles}

EngineOperations == {"lintFiles", "formatFiles", "lintAndFormat", "checkFiles"}

\* One subsystem's share of an orchestrator operation: linter.lintFiles(enabledFiles) or
\* formatter.formatFiles(enabledFiles).
\*   active:  the call has not returned yet
\*   started: how many files have been handed to lintFile / formatFile
\*   tasks:   the per-file operations of the current chunk
\*   results: the results pushed so far
Side(active, started, tasks, results) ==
    [active |-> active, started |-> started, tasks |-> tasks, results |-> results]

NoSide == Side(FALSE, 0, <<>>, <<>>)

NoReturn == [operation |-> "none"]

\* aggregateMetrics(): the counters of this.metrics after the call
aggregateMetrics(metrics, linter, formatter) ==
    [filesProcessed |-> Max(linter.filesProcessed, formatter.filesProcessed),
     linesProcessed |-> Max(linter.linesProcessed, formatter.linesProcessed),
     rulesExecuted  |-> metrics.rulesExecuted + linter.rulesExecuted,
     cacheHits      |-> metrics.cacheHits + linter.cacheHits + formatter.cacheHits,
     cacheMisses    |-> metrics.cacheMisses + linter.cacheMisses + formatter.cacheMisses]

\* r.errorCount of a returned result: undefined when the object has no such property
HasErrorCount(r) == "errorCount" \in DOMAIN r

RECURSIVE SumErrorCount(_, _)
\* results.reduce((sum, r) => sum + r.errorCount, 0): a number, or NaN once an
\* undefined errorCount was added
SumErrorCount(results, i) ==
    IF i > Len(results) THEN [nan |-> FALSE, value |-> 0]
    ELSE With(SumErrorCount(results, i + 1), LAMBDA rest :
              IF rest.nan \/ ~HasErrorCount(results[i])
                THEN [nan |-> TRUE, value |-> 0]
                ELSE [nan |-> FALSE, value |-> results[i].errorCount + rest.value])

\* A verdict that counts warnings as well.
checkFiles_CountsWarnings(results) ==
    [operation |-> "checkFiles",
     passed    |-> \A i \in 1..Len(results) :
                      /\ HasErrorCount(results[i])
                      /\ results[i].errorCount + results[i].warningCount = 0,
     results   |-> results]

\* checkFiles after lintFiles returned: { passed: errorCount === 0, results }
checkFiles(results) ==
    With(SumErrorCount(results, 1), LAMBDA errorCount :
         [operation |-> "checkFiles",
          passed    |-> ~errorCount.nan /\ errorCount.value = 0,
          results   |-> results])

\* The chunk length a subsystem uses for a list: lists of one file take the sequential
\* loop, which awaits one lintFile / formatFile at a time.
SideChunkSize(cfg, files) == IF Len(files) > 1 THEN ChunkSize(cfg) ELSE 1

\* A subsystem starts the chunk that follows the first `from` files.
SideBegin(operation, cfg, mem, disk, ver, t, metrics, files, writes, from, results) ==
    With(chunkArray(SubSeq(files, from + 1, Len(files)), SideChunkSize(cfg, files))[1], LAMBDA chunk :
    With(StartChunk(operation, cfg, mem, disk, ver, t, metrics, chunk,
                    SubSeq(writes, from + 1, Len(files)), 1), LAMBDA begun :
         [side    |-> Side(TRUE, from + Len(chunk), begun.tasks, results),
          memory  |-> begun.memory,
          metrics |-> begun.metrics]))

\* The continuations a started chunk leaves in the microtask queue.
SideQueue(side, tasks) == [k \in 1..Len(Pending(tasks)) |-> [side |-> side, i |-> Pending(tasks)[k]]]

\* The per-file operations that have started and have not resolved.
InFlightOf(side) == Cardinality({i \in 1..Len(side.tasks) : side.tasks[i].stage # "done"})

InFlight == InFlightOf(engine.lint) + InFlightOf(engine.format)

InitEngine ==
    /\ InitCache
    /\ InitRegistry
    /\ config \in BatchConfigs
    /\ linterMetrics = initializeMetrics
    /\ formatterMetrics = initializeMetrics
    /\ call = NoCall
    /\ prevCall = NoCall
    /\ lookedUp = {}
    /\ calls = 0
    /\ run = NoRun
    /\ batch = NoBatch
    /\ engine = [phase |-> "idle", metrics |-> initializeMetrics, operation |-> "none",
                 files |-> <<>>, writes |-> <<>>, lint |-> NoSide, format |-> NoSide,
                 queue |-> <<>>, returned |-> NoReturn, runs |-> 0, reads |-> 0]

Lints(operation) == operation \in {"lintFiles", "lintAndFormat", "checkFiles"}
Formats(operation) == operation \in {"formatFiles", "lintAndFormat"}

\* Whether the subsystems process the list with per-file operations that overlap:
\* lintFiles / formatFiles take the parallel branch for more than one file, and
\* lintAndFormat runs the two subsystems under one Promise.all in parallel mode.
Overlapping(operation, cfg, files) ==
    cfg.parallel /\ (Len(files) > 1 \/ operation = "lintAndFormat")

\* An orchestrator operation from its call to the first await of a per-file operation.
\* The files are the loaded files that filterEnabledFiles kept; the disk accepts every
\* cache write of the operation or none.
EngineStart(operation, files, writeOk) ==
    /\ engine.phase = "idle"
    /\ engine.runs < MaxEngineRuns
    /\ \E writes \in {[i \in 1..Len(files) |-> writeOk]} :
       IF Overlapping(operation, config, files)
         THEN \E l \in {IF Lints(operation)
                          THEN SideBegin("lint", config, memoryCache, diskCache, version, now,
                                         linterMetrics, files, writes, 0, <<>>)
                          ELSE [side |-> NoSide, memory |-> memoryCache, metrics |-> linterMetrics]} :
              \E f \in {IF Formats(operation)
                          THEN SideBegin("format", config, l.memory, diskCache, version, now,
                                         formatterMetrics, files, writes, 0, <<>>)
                          ELSE [side |-> NoSide, memory |-> l.memory, metrics |-> formatterMetrics]} :
                 /\ engine' = [engine EXCEPT !.phase = "running", !.operation = operation,
                                             !.files = files, !.writes = writes,
                                             !.lint = l.side, !.format = f.side,
                                             !.queue = SideQueue("lint", l.side.tasks)
                                                       \o SideQueue("format", f.side.tasks),
                                             !.returned = NoReturn]
                 /\ memoryCache' = f.memory
                 /\ diskCache' = diskCache
                 /\ linterMetrics' = l.metrics
                 /\ formatterMetrics' = f.metrics
         ELSE \E l \in {IF Lints(operation)
                          THEN RunSequential("lint", config, memoryCache, diskCache, version, now,
                                             linterMetrics, files, writes, 1)
                          ELSE [results |-> <<>>, memory |-> memoryCache, disk |-> diskCache,
                                metrics |-> linterMetrics]} :
              \E f \in {IF Formats(operation)
                          THEN RunSequential("format", config, l.memory, l.disk, version, now,
                                             formatterMetrics, files, writes, 1)
                          ELSE [results |-> <<>>, memory |-> l.memory, disk |-> l.disk,
                                metrics |-> formatterMetrics]} :
                 /\ engine' = [engine EXCEPT !.phase = "running", !.operation = operation,
                                             !.files = files, !.writes = writes,
                                             !.lint = Side(FALSE, Len(files), <<>>, l.results),
                                             !.format = Side(FALSE, Len(files), <<>>, f.results),
                                             !.queue = <<>>,
                                             !.returned = NoReturn]
                 /\ memoryCache' = f.memory
                 /\ diskCache' = f.disk
                 /\ linterMetrics' = l.metrics
                 /\ formatterMetrics' = f.metrics
    /\ UNCHANGED <<version, now, got, config, call, prevCall, lookedUp, calls, registryVars, run, batch, history>>

\* The microtask at the head of the queue: the continuation of one lintFile / formatFile
\* after its await.
EngineMicrotask ==
    /\ engine.phase = "running"
    /\ engine.queue # <<>>
    /\ \E head \in {Head(engine.queue)} :
       \E task \in {IF head.side = "lint" THEN engine.lint.tasks[head.i]
                                          ELSE engine.format.tasks[head.i]} :
       CASE task.stage = "parse" ->
              \E ran \in {lintFileRules(config, linterMetrics, task.file)} :
              /\ engine' = [engine EXCEPT !.lint.tasks[head.i].stage = "rules",
                                          !.lint.tasks[head.i].messages = ran.messages,
                                          !.queue = Append(Tail(@), head)]
              /\ linterMetrics' = ran.metrics
              /\ UNCHANGED <<memoryCache, diskCache, formatterMetrics>>
         [] task.stage = "rules" ->
              \E done \in {lintFileFinish(config, memoryCache, diskCache, version, now, linterMetrics,
                                            task.file, task.messages, task.writeOk)} :
              /\ engine' = [engine EXCEPT !.lint.tasks[head.i].stage = "done",
                                          !.lint.tasks[head.i].result = done.result,
                                          !.queue = Tail(@)]
              /\ memoryCache' = done.memory
              /\ diskCache' = done.disk
              /\ linterMetrics' = done.metrics
              /\ UNCHANGED formatterMetrics
         [] task.stage = "format" ->
              \E done \in {formatFileFinish(config, memoryCache, diskCache, version, now,
                                              formatterMetrics, task.file, task.writeOk)} :
              /\ engine' = [engine EXCEPT !.format.tasks[head.i].stage = "done",
                                          !.format.tasks[head.i].result = done.result,
                                          !.queue = Tail(@)]
              /\ memoryCache' = done.memory
              /\ diskCache' = done.disk
              /\ formatterMetrics' = done.metrics
              /\ UNCHANGED linterMetrics
    /\ UNCHANGED <<version, now, got, config, call, prevCall, lookedUp, calls, registryVars, run, batch, history>>

\* Promise.all of a subsystem's chunk has resolved: its results are pushed, and the
\* subsystem starts its next chunk or returns.
EngineChunkResolved(operation) ==
    /\ engine.phase = "running"
    /\ \E side \in {IF operation = "lint" THEN engine.lint ELSE engine.format} :
       /\ side.active
       /\ InFlightOf(side) = 0
       /\ \E results \in {side.results \o [i \in 1..Len(side.tasks) |-> side.tasks[i].result]} :
          IF side.started = Len(engine.files)
            THEN /\ engine' = IF operation = "lint"
                                THEN [engine EXCEPT !.lint = Side(FALSE, side.started, <<>>, results)]
                                ELSE [engine EXCEPT !.format = Side(FALSE, side.started, <<>>, results)]
                 /\ UNCHANGED <<memoryCache, linterMetrics, formatterMetrics>>
            ELSE \E next \in {SideBegin(operation, config, memoryCache, diskCache, version, now,
                                        MetricsOf(operation), engine.files, engine.writes,
                                        side.started, results)} :
                 /\ engine' = IF operation = "lint"
                                THEN [engine EXCEPT !.lint = next.side,
                                                    !.queue = @ \o SideQueue("lint", next.side.tasks)]
                                ELSE [engine EXCEPT !.format = next.side,
                                                    !.queue = @ \o SideQueue("format", next.side.tasks)]
                 /\ memoryCache' = next.memory
                 /\ IF operation = "lint"
                      THEN linterMetrics' = next.metrics /\ UNCHANGED formatterMetrics
                      ELSE formatterMetrics' = next.metrics /\ UNCHANGED linterMetrics
    /\ UNCHANGED <<diskCache, version, now, got, config, call, prevCall, lookedUp, calls,
                   registryVars, run, batch, history>>

\* The subsystems have returned: aggregateMetrics() runs and the operation returns.
EngineFinish ==
    /\ engine.phase = "running"
    /\ ~engine.lint.active
    /\ ~engine.format.active
    /\ engine' = [engine EXCEPT
                    !.phase = "idle",
                    !.metrics = aggregateMetrics(@, linterMetrics, formatterMetrics),
                    !.runs = @ + 1,
                    !.returned =
                        IF engine.operation = "checkFiles" THEN checkFiles(engine.lint.results)
                        ELSE [operation     |-> engine.operation,
                              lintResults   |-> engine.lint.results,
                              formatResults |-> engine.format.results]]
    /\ UNCHANGED <<cacheVars, execVars, calls, registryVars, run, batch, history>>

\* getMetrics(): aggregateMetrics(), then a copy of this.metrics is returned
GetMetrics ==
    /\ engine.phase = "idle"
    /\ engine.reads < MaxMetricsReads
    /\ \E aggregated \in {aggregateMetrics(engine.metrics, linterMetrics, formatterMetrics)} :
          engine' = [engine EXCEPT !.metrics = aggregated,
                                   !.reads = @ + 1,
                                   !.returned = [operation |-> "getMetrics", metrics |-> aggregated]]
    /\ UNCHANGED <<cacheVars, execVars, calls, registryVars, run, batch, history>>

\* resetMetrics()
ResetMetrics ==
    /\ engine.phase = "idle"
    /\ engine' = [engine EXCEPT !.metrics = initializeMetrics, !.returned = NoReturn]
    /\ linterMetrics' = initializeMetrics
    /\ formatterMetrics' = initializeMetrics
    /\ UNCHANGED <<cacheVars, config, call, prevCall, lookedUp, calls, registryVars, run, batch, history>>

NextEngine ==
    \/ \E operation \in EngineOperations, files \in EngineFileLists, writeOk \in BOOLEAN :
          EngineStart(operation, files, writeOk)
    \/ EngineMicrotask
    \/ \E operation \in {"lint", "format"} : EngineChunkResolved(operation)
    \/ EngineFinish
    \/ GetMetrics
    \/ ResetMetrics

SpecEngine == InitEngine /\ [][NextEngine]_vars

-----------------------------------------------------------------------------
(* formatFile on a text and on the text it returned                         *)

\* The longest text that is formatted.
MaxTextLen == 3

FormatChars == {"a", " ", "\n", "=", "{", "}", ";", "<"}

Texts == UNION {[1..n -> FormatChars] : n \in 1..MaxTextLen}

FormatPath(language) ==
    CASE language = "html"       -> "test.html"
      [] language = "css"        -> "test.css"
      [] language = "javascript" -> "test.js"
      [] language = "typescript" -> "test.ts"

InitFormat ==
    /\ InitCache
    /\ InitRegistry
    /\ config \in {ConfigA, ConfigNoCache}
    /\ linterMetrics = initializeMetrics
    /\ formatterMetrics = initializeMetrics
    /\ call = NoCall
    /\ prevCall = NoCall
    /\ lookedUp = {}
    /\ calls = 0
    /\ run \in [phase : {"text"}, language : SupportedLanguages, text : Texts]
    /\ batch = NoBatch
    /\ engine = NoEngine

\* formatter.formatFile({path, content: text, language})
FormatText(writeOk) ==
    /\ run.phase = "text"
    /\ \E done \in {formatFile(config, memoryCache, diskCache, version, now, formatterMetrics,
                               FileInfo(FormatPath(run.language), run.text, run.language), writeOk)} :
       /\ run' = [phase |-> "once", language |-> run.language, text |-> run.text,
                  once |-> done.result]
       /\ memoryCache' = done.memory
       /\ diskCache' = done.disk
       /\ formatterMetrics' = done.metrics
    /\ UNCHANGED <<version, now, got, config, linterMetrics, call, prevCall, lookedUp, calls,
                   registryVars, batch, engine, history>>

\* formatter.formatFile on the same path with the text the first call returned
FormatAgain(writeOk) ==
    /\ run.phase = "once"
    /\ \E done \in {formatFile(config, memoryCache, diskCache, version, now, formatterMetrics,
                               FileInfo(FormatPath(run.language), run.once.formatted, run.language),
                               writeOk)} :
       /\ run' = [phase |-> "twice", language |-> run.language, text |-> run.text,
                  once |-> run.once, twice |-> done.result]
       /\ memoryCache' = done.memory
       /\ diskCache' = done.disk
       /\ formatterMetrics' = done.metrics
    /\ UNCHANGED <<version, now, got, config, linterMetrics, call, prevCall, lookedUp, calls,
                   registryVars, batch, engine, history>>

NextFormat ==
    \/ \E writeOk \in BOOLEAN : FormatText(writeOk)
    \/ \E writeOk \in BOOLEAN : FormatAgain(writeOk)

SpecFormat == InitFormat /\ [][NextFormat]_vars

-----------------------------------------------------------------------------
(* checkFiles on the results lintFiles returned                             *)

\* The most results lintFiles returns to checkFiles.
MaxResults == 2

\* The rules of a language, all configured with one severity under their full ids.
AllRules(language, severity) == [ruleId \in RulesOf(language) |-> severity]

\* Results as lintFile builds them: runRules on a tree with the rules of the language
\* configured as errors, or not configured (warnings); and an object without errorCount,
\* which lintFile returns when the cache hands it the entry of a formatFile call.
CheckResults ==
    {LintResult(file, runRules(WithRules(ConfigA, file.language, ruleConfig), file,
                               SourceCode(file.content, tree), {}).messages) :
        file \in {FileInfo("test.html", Content_a, "html")},
        ruleConfig \in {AllRules("html", "error"), <<>>},
        tree \in Trees("html")}
      \cup {LintResult(file, runRules(WithRules(ConfigA, file.language, ruleConfig), file,
                                      SourceCode(file.content, tree), {}).messages) :
               file \in {FileInfo("test.css", Content_a, "css")},
               ruleConfig \in {AllRules("css", "error"), <<>>},
               tree \in Trees("css")}
      \cup {FormatResult(FileInfo("test.html", Content_a, "html"), Content_a)}

InitCheck ==
    /\ InitCache
    /\ InitExec
    /\ InitRegistry
    /\ batch = NoBatch
    /\ engine = NoEngine
    /\ run \in {[phase |-> "results", results |-> results] :
                   results \in UNION {[1..n -> CheckResults] : n \in 0..MaxResults}}

\* checkFiles from the return of lintFiles: the reduction and the verdict
CheckFiles ==
    /\ run.phase = "results"
    /\ run' = [phase |-> "checked", results |-> run.results, out |-> checkFiles(run.results)]
    /\ UNCHANGED <<cacheVars, execVars, calls, registryVars, batch, engine, history>>

NextCheck == CheckFiles

SpecCheck == InitCheck /\ [][NextCheck]_vars

-----------------------------------------------------------------------------
(* Properties                                                              *)

\* The configuration that enters the content hash of a call.
RelevantConfig(c) ==
    IF c.operation = "lint"
      THEN getLanguageConfig(c.config, c.file.language)
      ELSE getLanguageFormattingConfig(c.config, c.file.language)

\* What the call computes for its own (content, configuration) when nothing is cached.
Computed(c) ==
    IF c.operation = "lint"
      THEN LintResult(c.file, runRules(c.config, c.file, parseFile(c.file), {}).messages)
      ELSE FormatResult(c.file, formatByLanguage(c.file.content, c.file.language,
                                                 RelevantConfig(c)).formatted)

\* The last two calls are the same operation on the same path, content and
\* language configuration, with caching enabled.
RepeatedCall ==
    /\ call # NoCall
    /\ prevCall # NoCall
    /\ call.operation = prevCall.operation
    /\ call.file = prevCall.file
    /\ RelevantConfig(call) = RelevantConfig(prevCall)
    /\ call.config.cacheEnabled
    /\ prevCall.config.cacheEnabled

\* C1: with caching enabled, the second of two consecutive calls on the same path,
\* content and language configuration returns the result of the first, counts one
\* cache hit and no cache miss.
C1_RepeatedCallHits ==
    RepeatedCall =>
        /\ call.result = prevCall.result
        /\ call.after.cacheHits = call.before.cacheHits + 1
        /\ call.after.cacheMisses = call.before.cacheMisses

\* A repeated call happened, the first of them being a miss.
C1_Witness ==
    /\ RepeatedCall
    /\ ~prevCall.hit
    /\ call.hit

\* C2: a call whose content or relevant configuration differs from every earlier
\* call for the path misses the cache and its result is recomputed; no call returns
\* a result computed for another (content, configuration) pair.
C2_DifferentInputRecomputed ==
    (call # NoCall /\ call.config.cacheEnabled) =>
        /\ call.key \notin lookedUp =>
              /\ \A k \in lookedUp : k.filePath = call.key.filePath => k.hash # call.key.hash
              /\ ~call.hit
              /\ call.after.cacheMisses = call.before.cacheMisses + 1
        /\ call.result = Computed(call)

\* C3: whichever tier holds it, get(key) returns an entry only if the entry carries the
\* running version and is younger than 24 hours.
C3_GetReturnsOnlyFreshEntries ==
    (got # NoGet /\ got.entry # Absent) =>
        /\ got.entry.version = version
        /\ got.at - got.entry.timestamp < FreshnessWindowMs

\* Rule, formatter or processor items of a plugin that the registry resolves to that
\* plugin's own contribution.
RuleResolves(reg, plugin, i) ==
    getRule(reg, SlashJoin(plugin.name, plugin.rules[i].key)) = plugin.rules[i].entry

FormatterResolves(reg, plugin, i) ==
    getFormatter(reg, plugin.name, plugin.formatters[i].key) = plugin.formatters[i].entry

ProcessorResolves(reg, plugin, i) ==
    getProcessor(reg, plugin.processors[i].key) = plugin.processors[i].entry

\* The last call was unregisterPlugin of a registered plugin.
Unregistered == lastOp.kind = "unregister" /\ MapHas(lastOp.before.plugins, lastOp.name)

\* C4: after unregisterPlugin(A) nothing that A contributed is resolvable any more, and
\* everything that another still-registered plugin B contributed and that was
\* resolvable before the call is still resolvable, a processor for an extension that A
\* also declares included.
C4_UnregisterIsolatesPlugins ==
    Unregistered =>
        LET A == MapGet(lastOp.before.plugins, lastOp.name) IN
        /\ \A i \in 1..Len(A.rules) : ~RuleResolves(CurrentRegistry, A, i)
        /\ \A i \in 1..Len(A.formatters) : ~FormatterResolves(CurrentRegistry, A, i)
        /\ \A i \in 1..Len(A.processors) : ~ProcessorResolves(CurrentRegistry, A, i)
        /\ \A n \in 1..Len(plugins) :
              LET B == plugins[n].entry IN
              /\ \A i \in 1..Len(B.rules) :
                    RuleResolves(lastOp.before, B, i) => RuleResolves(CurrentRegistry, B, i)
              /\ \A i \in 1..Len(B.formatters) :
                    FormatterResolves(lastOp.before, B, i) => FormatterResolves(CurrentRegistry, B, i)
              /\ \A i \in 1..Len(B.processors) :
                    ProcessorResolves(lastOp.before, B, i) => ProcessorResolves(CurrentRegistry, B, i)

\* A runRules call on a drawn tree has returned.
LintRan == run.phase = "done" /\ run.kind = "lint"

\* An executeRule call of the plugin manager has returned.
PluginRan == run.phase = "done" /\ run.kind = "plugin"

\* The messages of one rule in a list of messages.
MessagesOf(messages, ruleId) == SelectSeq(messages, LAMBDA m : m.ruleId = ruleId)

\* What the rule configuration of a language says about a rule, under the rule's full
\* id or under its plain name: "undefined" when it says nothing.
ConfiguredAs(cfg, language, ruleId) ==
    LET ruleConfig == getLanguageConfig(cfg, language).rules IN
    IF ruleId \in DOMAIN ruleConfig THEN ruleConfig[ruleId]
    ELSE ConfiguredSeverity(ruleConfig, PlainName(ruleId))

\* C5: a rule whose factory or handler throws does not abort the file: a result is
\* returned, every rule of the language is executed, and every rule that does not
\* throw has all its diagnostics in the result.
C5_ThrowingRuleIsIsolated ==
    LintRan =>
        LET languageRules == getLanguageRules(run.cfg, run.file.language) IN
        /\ ~run.out.threw
        /\ run.out.executed = languageRules
        /\ \A i \in 1..Len(languageRules) :
              ~RuleThrows(run.file, run.sourceCode, languageRules[i], run.createThrows) =>
                  MessagesOf(run.result.messages, languageRules[i])
                    = RunRule(run.cfg, run.file, run.sourceCode, languageRules[i], {})

\* One rule threw in a handler and a rule after it reported a diagnostic.
C5_Witness ==
    /\ LintRan
    /\ LET languageRules == getLanguageRules(run.cfg, run.file.language) IN
       \E i, j \in 1..Len(languageRules) :
          /\ i < j
          /\ traverseAST(run.sourceCode.ast, languageRules[i], run.sourceCode).threw
          /\ ~RuleThrows(run.file, run.sourceCode, languageRules[j], run.createThrows)
          /\ MessagesOf(run.result.messages, languageRules[j]) # <<>>

C7_UnsetSeverityIsWarning ==
    /\ LintRan =>
          \A k \in 1..Len(run.result.messages) :
              ConfiguredAs(run.cfg, run.file.language, run.result.messages[k].ruleId)
                  \notin {"error", "warn", "off"}
                => run.result.messages[k].severity = 1
    /\ PluginRan =>
          \A k \in 1..Len(run.out.messages) :
              (\A language \in SupportedLanguages :
                  ConfiguredAs(run.cfg, language, run.ruleId) \notin {"error", "warn", "off"})
                => run.out.messages[k].severity = 1

\* The linter reported a diagnostic of a rule configured with an unrecognised severity.
C7_Witness ==
    /\ LintRan
    /\ \E k \in 1..Len(run.result.messages) :
          ConfiguredAs(run.cfg, run.file.language, run.result.messages[k].ruleId) = "bogus"

C9_ExecutesApplicableRules ==
    (call # NoCall /\ call.operation = "lint" /\ ~call.hit) =>
        LET language == call.file.language
            applicable ==
                {ruleId \in Range(loadBuiltinRules(call.config)) : BuiltinLanguage(ruleId) = language}
                  \cup Range(Keys(getRulesForLanguage(CurrentRegistry, language)))
            expected == {ruleId \in applicable : ConfiguredAs(call.config, language, ruleId) # "off"}
        IN
        /\ Range(call.executed) = expected
        /\ Len(call.executed) = Cardinality(expected)

\* The multiset of the elements of a sequence.
BagOf(seq) == [x \in Range(seq) |-> Cardinality({i \in 1..Len(seq) : seq[i] = x})]

\* C10: lintFiles / formatFiles in parallel mode return the same multiset of per-file
\* results as sequential processing of the same list.
C10_ParallelEqualsSequential ==
    batch.phase = "done" => BagOf(batch.results) = BagOf(batch.sequential)

\* C11: while an orchestrator operation runs in parallel mode, the per-file operations
\* in flight never exceed the chunk size (config.maxWorkers, 4 when unset).
C11_InFlightAtMostChunkSize ==
    (engine.phase = "running" /\ config.parallel) => InFlight <= ChunkSize(config)

\* C12: within one lintFiles / formatFiles batch in parallel mode the chunks are processed
\* one after the other: whenever per-file operations of a further chunk are started, every
\* per-file operation of the chunk before it has resolved and its results have been pushed.
C12_ChunksInSequence ==
    [][(batch.phase = "parallel" /\ batch'.phase = "parallel" /\ batch'.started > batch.started)
          => /\ \A i \in 1..Len(batch.tasks) : batch.tasks[i].stage = "done"
             /\ Len(batch'.results) = batch.started
             /\ batch'.started - batch.started = Len(batch'.tasks)
             /\ Len(batch'.tasks) <= ChunkSize(config)]_vars

\* The second chunk of a batch is in flight after the first chunk, whose operations
\* were suspended at an await, has resolved.
C12_Witness ==
    /\ batch.phase = "parallel"
    /\ Len(batch.results) > 0
    /\ batch.queue # <<>>

\* C13: lintFiles / formatFiles return one result per input file, and result i is the
\* result for input file i (it carries that file's path), in sequential and in parallel mode.
C13_OneResultPerFileInOrder ==
    batch.phase = "done" =>
        /\ Len(batch.results) = Len(batch.files)
        /\ \A i \in 1..Len(batch.files) : batch.results[i].filePath = batch.files[i].path

\* C14: formatting is idempotent: formatFile applied to the text that formatFile returned
\* returns that text again, with changed = false.
C14_FormatIsIdempotent ==
    run.phase = "twice" =>
        /\ run.twice.formatted = run.once.formatted
        /\ ~run.twice.changed

\* C15: checkFiles returns passed = true exactly when the errorCount of the returned lint
\* results sums to zero, i.e. when every result has errorCount 0; warnings do not count.
C15_PassedIffNoErrors ==
    run.phase = "checked" =>
        /\ run.out.results = run.results
        /\ run.out.passed <=> \A i \in 1..Len(run.results) :
                                 /\ HasErrorCount(run.results[i])
                                 /\ run.results[i].errorCount = 0

\* checkFiles passed on results that carry warnings.
C15_Witness ==
    /\ run.phase = "checked"
    /\ run.out.passed
    /\ \E i \in 1..Len(run.results) : run.results[i].warningCount > 0

\* C16: between orchestrator operations the engine's rulesExecuted, cacheHits and
\* cacheMisses are the sums of the linter's and the formatter's counters, and its
\* filesProcessed and linesProcessed are the maxima of theirs.
C16_EngineMetricsAggregate ==
    (engine.phase = "idle" /\ (engine.runs > 0 \/ engine.reads > 0)) =>
        /\ engine.metrics.rulesExecuted = linterMetrics.rulesExecuted + formatterMetrics.rulesExecuted
        /\ engine.metrics.cacheHits = linterMetrics.cacheHits + formatterMetrics.cacheHits
        /\ engine.metrics.cacheMisses = linterMetrics.cacheMisses + formatterMetrics.cacheMisses
        /\ engine.metrics.filesProcessed
             = Max(linterMetrics.filesProcessed, formatterMetrics.filesProcessed)
        /\ engine.metrics.linesProcessed
             = Max(linterMetrics.linesProcessed, formatterMetrics.linesProcessed)

\* The last call on the cache was a get, recorded in got.
JustGot == got.kind = "get" /\ history.op.kind = "get"

\* The key of the last get was set before, and its last set carries the running version
\* and is younger than the freshness window.
LastSetIsFresh ==
    /\ got.key \in DOMAIN history.last
    /\ history.last[got.key].version = version
    /\ got.at - history.last[got.key].timestamp < FreshnessWindowMs

\* C17: right after clear() the fast tier is empty and the persistent tier is as it was;
\* a get(k) that follows the clear, for a key whose last set is fresh and of the running
\* version, returns that entry and puts it back into the fast tier.
C17_ClearEmptiesOnlyFastTier ==
    /\ history.op.kind = "clear" => (Len(memoryCache) = 0 /\ diskCache = history.op.disk)
    /\ (JustGot /\ got.after.kind = "clear" /\ LastSetIsFresh) =>
          /\ got.entry = history.last[got.key]
          /\ MapHas(memoryCache, got.key)
          /\ MapGet(memoryCache, got.key) = history.last[got.key]

\* C18: no two distinct keys that were set share a cache file.
C18_FileNamesInjective ==
    \A k1 \in DOMAIN history.last : \A k2 \in DOMAIN history.last :
        k1 # k2 => getCacheFilePath(k1) # getCacheFilePath(k2)

\* C19: get and set never raise. A set whose write to the cache file failed leaves the
\* entry in the fast tier, from which the next get of the key returns it; a get that
\* consults a cache file on which reading or parsing throws returns absent.
C19_CacheErrorsDoNotPropagate ==
    /\ history.op.kind = "set" =>
          /\ ~history.op.threw
          /\ MapHas(memoryCache, history.op.key)
          /\ MapGet(memoryCache, history.op.key) = history.last[history.op.key]
    /\ JustGot =>
          /\ ~got.threw
          /\ (got.after.kind = "set" /\ got.after.key = got.key /\ ~got.after.writeOk) =>
                got.entry = history.last[got.key]
          /\ (~got.inMemory /\ diskCache[getCacheFilePath(got.key)] = Corrupt) =>
                got.entry = Absent

\* After a set whose write failed left its entry in the fast tier, a get of a key
\* that is not in the fast tier and whose cache file is damaged returned absent.
C19_Witness ==
    /\ JustGot
    /\ ~got.threw
    /\ got.after.kind = "set"
    /\ ~got.after.writeOk
    /\ MapHas(memoryCache, got.after.key)
    /\ ~got.inMemory
    /\ diskCache[getCacheFilePath(got.key)] = Corrupt
    /\ got.entry = Absent

\* C20: after set calls only, a get(k) within the freshness window returns the entry of
\* the most recent set(k, .), stamped with the running version and the time of that set.
C20_GetReturnsLatestSet ==
    (JustGot /\ got.onlySets /\ LastSetIsFresh) => got.entry = history.last[got.key]

\* The last call was registerPlugin(p2) while a plugin with the same name was registered.
Reregistered == lastOp.kind = "register" /\ MapHas(lastOp.before.plugins, lastOp.plugin.name)

\* C21: after registerPlugin(p2) while a plugin p1 of the same name is registered, the
\* registry resolves exactly p2's rules, formatters and processors under that name:
\* every item of p2 resolves to p2's contribution, and no rule, formatter or processor
\* that p1 contributed and p2 does not declare remains resolvable.
C21_ReregisterReplaces ==
    Reregistered =>
        LET p1 == MapGet(lastOp.before.plugins, lastOp.plugin.name)
            p2 == lastOp.plugin IN
        /\ \A i \in 1..Len(p2.rules) : RuleResolves(CurrentRegistry, p2, i)
        /\ \A i \in 1..Len(p2.formatters) : FormatterResolves(CurrentRegistry, p2, i)
        /\ \A i \in 1..Len(p2.processors) : ProcessorResolves(CurrentRegistry, p2, i)
        /\ \A i \in 1..Len(p1.rules) :
              p1.rules[i].key \notin Range(Keys(p2.rules))
                  => getRule(CurrentRegistry, SlashJoin(p1.name, p1.rules[i].key)) = Undefined
        /\ \A i \in 1..Len(p1.formatters) :
              p1.formatters[i].key \notin Range(Keys(p2.formatters))
                  => getFormatter(CurrentRegistry, p1.name, p1.formatters[i].key) = Undefined
        /\ \A i \in 1..Len(p1.processors) :
              p1.processors[i].key \notin Range(Keys(p2.processors))
                  => ~ProcessorResolves(CurrentRegistry, p1, i)

\* The shape the specification requires of a plugin: name and version are non-empty
\* strings and every declared language is one of html, css, javascript, typescript.
WellFormed(plugin) ==
    /\ plugin.name # <<>>
    /\ plugin.version \notin {Undefined, ""}
    /\ Range(plugin.languages) \subseteq SupportedLanguages

\* C22: registerPlugin(plugin) rejects a plugin whose name or version is not a non-empty
\* string or whose declared languages are not all supported: the call raises to its
\* caller and the registry is what it was before the call.
C22_MalformedPluginRejected ==
    (lastOp.kind = "register" /\ ~WellFormed(lastOp.plugin)) =>
        /\ lastOp.threw
        /\ CurrentRegistry = lastOp.before

\* The rules of the registered plugins that declare the language, each under the id
\* pluginName/ruleId.
RulesOfPluginsFor(reg, language) ==
    UNION {Range(FullRuleIds(reg.plugins[n].entry)) :
              n \in {k \in 1..Len(reg.plugins) : language \in Range(reg.plugins[k].entry.languages)}}

\* C23: getRulesForLanguage(L) returns exactly the rules of the registered plugins whose
\* declared languages include L, each under the id pluginName/ruleId, whatever the
\* plugin name and rule id are (a name containing '/' included); a rule of a plugin
\* that does not declare L is not returned.
C23_RulesForLanguageExact ==
    \A language \in SupportedLanguages :
        Range(getRulesForLanguage(CurrentRegistry, language))
            = RulesOfPluginsFor(CurrentRegistry, language)

\* The last two calls are the same operation on the same file, with caching enabled,
\* and updateConfig replaced the configuration between them.
UpdatedBetween ==
    /\ call # NoCall
    /\ prevCall # NoCall
    /\ call.operation = prevCall.operation
    /\ call.file = prevCall.file
    /\ call.config # prevCall.config
    /\ call.config.cacheEnabled
    /\ prevCall.config.cacheEnabled

\* What C24 requires of the call after an updateConfig.
AfterUpdateConfig ==
    UpdatedBetween =>
        /\ RelevantConfig(call) = RelevantConfig(prevCall) =>
              /\ call.hit
              /\ call.result = prevCall.result
        /\ RelevantConfig(call) # RelevantConfig(prevCall) =>
              /\ call.result = Computed(call)
              /\ call.key \notin lookedUp => ~call.hit

\* C24: updateConfig(c) leaves both cache tiers as they are, and the operations after it
\* use the new configuration: a file whose content and language configuration are
\* unchanged still hits the cache, a file whose language configuration was changed by c
\* (and was not cached under the new one before) misses, and its result is the one
\* computed under the new configuration.
C24_UpdateConfigKeepsCache ==
    [][/\ config' # config => (memoryCache' = memoryCache /\ diskCache' = diskCache)
       /\ AfterUpdateConfig']_vars

-----------------------------------------------------------------------------
(* PluginManager: loadPlugin / loadConfiguredPlugins                        *)

\* Plugins listed in config.plugins in one configuration.
MaxConfiguredPlugins == 3

\* import(resolve(modulePath)) rejects.
ImportError == [kind |-> "ImportError"]

\* The module paths a configuration may name, and what importing each gives: the
\* default export of the module, or a rejection.
ModulePaths == {"./plugin-b", "./plugin-ax", "./missing", "./python", "./no-version", "./empty-name", "./empty-version"}

ModuleExport(modulePath) ==
    CASE modulePath = "./plugin-b"      -> Plugin_B
      [] modulePath = "./plugin-ax"     -> Plugin_AX
      [] modulePath = "./missing"       -> ImportError
      [] modulePath = "./python"        -> Plugin_Python
      [] modulePath = "./no-version"    -> Plugin_NoVersion
      [] modulePath = "./empty-name"    -> Plugin_EmptyName
      [] modulePath = "./empty-version" -> Plugin_EmptyVersion

\* PluginConfig (src/src/types.ts): name is the module path.
PluginConfigs == [name : ModulePaths, enabled : BOOLEAN]

ConfiguredPlugins ==
    UNION {[1..n -> PluginConfigs] : n \in 0..MaxConfiguredPlugins}

\* loadPlugin(modulePath): import, validate, register; whatever fails is rethrown.
loadPlugin(reg, modulePath) ==
    IF ModuleExport(modulePath) = ImportError
      THEN [registry |-> reg, threw |-> TRUE]
    ELSE IF ~isValidPlugin(ModuleExport(modulePath))
      THEN [registry |-> reg, threw |-> TRUE]
    ELSE [registry |-> registerPlugin(reg, ModuleExport(modulePath)), threw |-> FALSE]

\* The body of `for (const pluginConfig of this.config.plugins)` without its try / catch:
\* what loadPlugin throws leaves loadConfiguredPlugins.
loadConfiguredPlugin_NoCatch(reg, pluginConfig) ==
    IF pluginConfig.enabled
      THEN [registry |-> loadPlugin(reg, pluginConfig.name).registry, caught |-> FALSE,
            raised |-> loadPlugin(reg, pluginConfig.name).threw]
      ELSE [registry |-> reg, caught |-> FALSE, raised |-> FALSE]

\* The body of `for (const pluginConfig of this.config.plugins)`: a disabled entry is
\* passed over, an enabled one is loaded inside try / catch.
loadConfiguredPlugin(reg, pluginConfig) ==
    IF pluginConfig.enabled
      THEN [registry |-> loadPlugin(reg, pluginConfig.name).registry,
            caught |-> loadPlugin(reg, pluginConfig.name).threw, raised |-> FALSE]
      ELSE [registry |-> reg, caught |-> FALSE, raised |-> FALSE]

InitLoad ==
    /\ InitCache
    /\ InitExec
    /\ InitRegistry
    /\ batch = NoBatch
    /\ engine = NoEngine
    /\ \E configured \in ConfiguredPlugins :
          run = [phase |-> "loading", plugins |-> configured, i |-> 1, caught |-> {},
                 raised |-> FALSE]

\* One iteration of the loop of loadConfiguredPlugins, up to the end of its await. An
\* error that leaves the loop body rejects the promise of loadConfiguredPlugins.
LoadConfiguredPlugin ==
    /\ run.phase = "loading"
    /\ run.i <= Len(run.plugins)
    /\ \E r \in {loadConfiguredPlugin(CurrentRegistry, run.plugins[run.i])} :
          /\ plugins' = r.registry.plugins
          /\ rules' = r.registry.rules
          /\ formatters' = r.registry.formatters
          /\ processors' = r.registry.processors
          /\ run' = [run EXCEPT !.i = @ + 1,
                                !.caught = IF r.caught THEN @ \cup {run.i} ELSE @,
                                !.raised = r.raised,
                                !.phase = IF r.raised THEN "rejected" ELSE @]
    /\ UNCHANGED <<cacheVars, execVars, calls, lastOp, batch, engine, history>>

\* The loop is over: the promise of loadConfiguredPlugins resolves.
LoadConfiguredDone ==
    /\ run.phase = "loading"
    /\ run.i > Len(run.plugins)
    /\ run' = [run EXCEPT !.phase = "loaded"]
    /\ UNCHANGED <<cacheVars, execVars, calls, registryVars, batch, engine, history>>

NextLoad == LoadConfiguredPlugin \/ LoadConfiguredDone

SpecLoad == InitLoad /\ [][NextLoad]_vars

\* The configured entries that are enabled, import, and export a plugin that satisfies
\* the given shape predicate; the plugins they export.
Loadable(configured, Shape(_)) ==
    {ModuleExport(configured[i].name) :
        i \in {k \in 1..Len(configured) :
                  /\ configured[k].enabled
                  /\ ModuleExport(configured[k].name) # ImportError
                  /\ Shape(ModuleExport(configured[k].name))}}

\* C25: loading the configured plugins is best-effort: it never raises; a configured
\* plugin whose load fails (the import rejects, or the export is rejected as not having
\* the shape of a plugin) is skipped; every other enabled configured plugin is
\* registered; a plugin with enabled = false is not.
C25_ConfiguredPluginsBestEffort ==
    /\ ~run.raised
    /\ run.phase # "rejected"
    /\ run.phase = "loaded" =>
          {plugins[n].entry : n \in 1..Len(plugins)} = Loadable(run.plugins, isValidPlugin)

\* A load failed, a later configured plugin was loaded all the same, and a disabled
\* entry naming a loadable plugin was passed over.
C25_Witness ==
    /\ run.phase = "loaded"
    /\ \E i \in run.caught, j \in 1..Len(run.plugins) :
          /\ i < j
          /\ run.plugins[j].enabled
          /\ \E n \in 1..Len(plugins) : plugins[n].entry = ModuleExport(run.plugins[j].name)
    /\ \E k \in 1..Len(run.plugins) :
          /\ ~run.plugins[k].enabled
          /\ ModuleExport(run.plugins[k].name) \in {Plugin_B, Plugin_AX}
          /\ \A n \in 1..Len(plugins) : plugins[n].entry # ModuleExport(run.plugins[k].name)

-----------------------------------------------------------------------------
(* GlintEngine: one lintFiles / formatFiles / lintAndFormat from the loaded  *)
(* files to the return: filterEnabledFiles, the subsystems, writeFormattedFiles *)

\* The most files one operation loads.
MaxLoadedFiles == 2

\* Files of three languages; formatting leaves the last one as it is.
LoadedFiles ==
    {FileInfo("test.html", Content_a, "html"),
     FileInfo("test.css", Content_ab, "css"),
     FileInfo("test.js", <<"a", "\n">>, "javascript")}

\* What loadFiles returns: files of distinct paths.
LoadedFileLists ==
    {files \in UNION {[1..n -> LoadedFiles] : n \in 1..MaxLoadedFiles} :
        \A i, j \in 1..Len(files) : files[i].path = files[j].path => i = j}

\* Configurations that differ in the languages they enable and in config.parallel.
OrchestratorConfigs ==
    {[ConfigA EXCEPT !.parallel = parallel, !.html.enabled = html, !.css.enabled = css,
                     !.javascript.enabled = javascript] :
        parallel \in BOOLEAN, html \in BOOLEAN, css \in BOOLEAN, javascript \in BOOLEAN}

\* A filter that keeps every file.
filterEnabledFiles_KeepAll(cfg, files) == files

\* fileProcessor.isLanguageEnabled(language)
isLanguageEnabled(cfg, language) ==
    CASE language = "html"       -> cfg.html.enabled
      [] language = "css"        -> cfg.css.enabled
      [] language = "javascript" -> cfg.javascript.enabled
      [] language = "typescript" -> cfg.typescript.enabled
      [] OTHER                   -> FALSE

\* fileProcessor.filterEnabledFiles(files)
filterEnabledFiles(cfg, files) ==
    SelectSeq(files, LAMBDA file : isLanguageEnabled(cfg, file.language))

\* result.changed of a returned result: undefined (falsy) when the object has no such
\* property
IsChanged(result) == "changed" \in DOMAIN result /\ result.changed

\* Writes every result, changed or not.
writeFormattedFiles_All(results) ==
    [i \in 1..Len(results) |-> [filePath |-> results[i].filePath, data |-> results[i].formatted]]

\* writeFormattedFiles(results): the writeFile(filePath, data) calls it issues, in order
writeFormattedFiles(results) ==
    With(SelectSeq(results, IsChanged), LAMBDA changed :
         [i \in 1..Len(changed) |-> [filePath |-> changed[i].filePath, data |-> changed[i].formatted]])

InitOrchestrator ==
    /\ InitCache
    /\ InitRegistry
    /\ config \in OrchestratorConfigs
    /\ linterMetrics = initializeMetrics
    /\ formatterMetrics = initializeMetrics
    /\ call = NoCall
    /\ prevCall = NoCall
    /\ lookedUp = {}
    /\ calls = 0
    /\ batch = NoBatch
    /\ engine = [phase |-> "idle", metrics |-> initializeMetrics, operation |-> "none",
                 files |-> <<>>, writes |-> <<>>, lint |-> NoSide, format |-> NoSide,
                 queue |-> <<>>, returned |-> NoReturn, runs |-> 0, reads |-> 0]
    /\ \E operation \in {"lintFiles", "formatFiles", "lintAndFormat"}, files \in LoadedFileLists,
          write \in BOOLEAN, writeOk \in BOOLEAN :
          run = [phase |-> "loaded", operation |-> operation, files |-> files, write |-> write,
                 writeOk |-> writeOk, wrote |-> FALSE, written |-> <<>>]

\* The operation from the return of loadFiles to the first await of a per-file
\* operation: filterEnabledFiles, then the subsystems start on the enabled files. With
\* no enabled file the subsystems return empty lists at once.
OrchestratorStart ==
    /\ run.phase = "loaded"
    /\ engine.phase = "idle"
    /\ engine.runs = 0
    /\ \E enabledFiles \in {filterEnabledFiles(config, run.files)} :
          IF enabledFiles = <<>>
            THEN /\ engine' = [engine EXCEPT !.phase = "running", !.operation = run.operation,
                                             !.returned = NoReturn]
                 /\ UNCHANGED <<cacheVars, execVars, calls, registryVars, run, batch, history>>
            ELSE EngineStart(run.operation, enabledFiles, run.writeOk)

\* `if (write) await this.writeFormattedFiles(results)` once the subsystems returned.
WriteFormattedFiles ==
    /\ engine.phase = "running"
    /\ ~engine.lint.active
    /\ ~engine.format.active
    /\ Formats(engine.operation)
    /\ run.write
    /\ ~run.wrote
    /\ run' = [run EXCEPT !.wrote = TRUE, !.written = writeFormattedFiles(engine.format.results)]
    /\ UNCHANGED <<cacheVars, execVars, calls, registryVars, batch, engine, history>>

\* aggregateMetrics() and the return, after the writes if there were any to await.
OrchestratorFinish ==
    /\ (Formats(engine.operation) /\ run.write) => run.wrote
    /\ EngineFinish

NextOrchestrator ==
    \/ OrchestratorStart
    \/ EngineMicrotask
    \/ \E operation \in {"lint", "format"} : EngineChunkResolved(operation)
    \/ WriteFormattedFiles
    \/ OrchestratorFinish

SpecOrchestrator == InitOrchestrator /\ [][NextOrchestrator]_vars

\* The operation has returned.
Returned == engine.phase = "idle" /\ engine.returned # NoReturn

\* The writeFile calls made for a path.
WritesTo(path) == SelectSeq(run.written, LAMBDA w : w.filePath = path)

\* C26: with write = true, formatFiles and lintAndFormat write the formatted text to
\* exactly the files whose FormatResult has changed = true, the text being the
\* formatted text of that result; a file whose FormatResult has changed = false is not
\* written; with write = false nothing is written.
C26_WritesExactlyChangedFiles ==
    (Returned /\ Formats(engine.operation)) =>
        LET results == engine.returned.formatResults IN
        /\ ~run.write => run.written = <<>>
        /\ Len(results) = Len(engine.files)
        /\ run.write =>
              /\ \A i \in 1..Len(engine.files) :
                    IF IsChanged(results[i])
                      THEN WritesTo(engine.files[i].path)
                               = <<[filePath |-> engine.files[i].path, data |-> results[i].formatted]>>
                      ELSE WritesTo(engine.files[i].path) = <<>>
              /\ \A k \in 1..Len(run.written) :
                    \E i \in 1..Len(engine.files) : run.written[k].filePath = engine.files[i].path

\* The loaded files of a language the configuration enables / disables.
EnabledLoaded == SelectSeq(run.files, LAMBDA file : getLanguageConfig(config, file.language).enabled)

DisabledPaths ==
    {run.files[i].path : i \in {k \in 1..Len(run.files) :
                                   ~getLanguageConfig(config, run.files[k].language).enabled}}

\* C27: lintFiles, formatFiles and lintAndFormat execute only the files whose language
\* the configuration enables: the files handed to the linter and the formatter are the
\* enabled ones, every per-file operation runs on one of them, and no result is
\* returned for a file of a disabled language.
C27_OnlyEnabledLanguagesExecuted ==
    run.phase = "loaded" =>
        /\ engine.phase # "idle" \/ engine.runs > 0 => engine.files = EnabledLoaded
        /\ \A i \in 1..Len(engine.lint.tasks) : engine.lint.tasks[i].file.path \notin DisabledPaths
        /\ \A i \in 1..Len(engine.format.tasks) : engine.format.tasks[i].file.path \notin DisabledPaths
        /\ Returned =>
              /\ Lints(engine.operation) => Len(engine.returned.lintResults) = Len(EnabledLoaded)
              /\ Formats(engine.operation) => Len(engine.returned.formatResults) = Len(EnabledLoaded)
              /\ \A i \in 1..Len(engine.returned.lintResults) :
                    engine.returned.lintResults[i].filePath \notin DisabledPaths
              /\ \A i \in 1..Len(engine.returned.formatResults) :
                    engine.returned.formatResults[i].filePath \notin DisabledPaths
              /\ EnabledLoaded = <<>> =>
                    /\ linterMetrics = initializeMetrics
                    /\ formatterMetrics = initializeMetrics

\* An operation returned with one loaded file executed and one, of a disabled
\* language, left out.
C27_Witness ==
    /\ run.phase = "loaded"
    /\ Returned
    /\ engine.operation = "lintAndFormat"
    /\ Len(run.files) = 2
    /\ DisabledPaths # {}
    /\ Len(engine.returned.lintResults) = 1
    /\ Len(engine.returned.formatResults) = 1

-----------------------------------------------------------------------------
(* GlintLinter.lintFile / GlintFormatter.formatFile called directly under    *)
(* configurations that disable languages                                     *)

InitDirect ==
    /\ InitCache
    /\ InitRegistry
    /\ config \in OrchestratorConfigs
    /\ linterMetrics = initializeMetrics
    /\ formatterMetrics = initializeMetrics
    /\ call = NoCall
    /\ prevCall = NoCall
    /\ lookedUp = {}
    /\ calls = 0
    /\ run = NoRun
    /\ batch = NoBatch
    /\ engine = NoEngine

NextDirect ==
    \/ \E file \in Files, writeOk \in BOOLEAN : LintFile(file, writeOk)
    \/ \E file \in FormatFiles, writeOk \in BOOLEAN : FormatFile(file, writeOk)

SpecDirect == InitDirect /\ [][NextDirect]_vars

\* The last call was made on a file whose language the configuration disables.
OnDisabledLanguage ==
    /\ call # NoCall
    /\ ~getLanguageConfig(call.config, call.file.language).enabled

\* C28: a direct formatFile call on a file of a disabled language returns the content
\* as it is (formatted = content, changed = false), and a direct lintFile call on such
\* a file returns no diagnostics.
C28_DisabledLanguageSkipped ==
    OnDisabledLanguage =>
        IF call.operation = "format"
          THEN /\ "formatted" \in DOMAIN call.result
               /\ call.result.formatted = call.file.content
               /\ call.result.changed = FALSE
          ELSE /\ "messages" \in DOMAIN call.result
               /\ call.result.messages = <<>>
               /\ call.result.errorCount = 0
               /\ call.result.warningCount = 0

RECURSIVE PreOrder(_)
RECURSIVE PreOrderFrom(_, _)

\* The nodes of a tree, each node before its children and the children left to right.
PreOrder(node) == <<node>> \o PreOrderFrom(node.children, 1)

PreOrderFrom(children, i) ==
    IF i > Len(children) THEN <<>>
    ELSE PreOrder(children[i]) \o PreOrderFrom(children, i + 1)

RECURSIVE ReportsAlong(_, _, _, _)
\* What a rule reports when its handler is called on the nodes of a list one after the
\* other, up to the first call that throws.
ReportsAlong(nodes, i, ruleId, sourceCode) ==
    IF i > Len(nodes) THEN <<>>
    ELSE IF nodes[i].type # ListenerKind(ruleId)
      THEN ReportsAlong(nodes, i + 1, ruleId, sourceCode)
    ELSE IF Handler(ruleId, nodes[i], sourceCode).threw
      THEN Handler(ruleId, nodes[i], sourceCode).reports
    ELSE Handler(ruleId, nodes[i], sourceCode).reports
           \o ReportsAlong(nodes, i + 1, ruleId, sourceCode)

\* C29: in the messages of one lint result the diagnostics of one executed rule appear
\* in pre-order visitation order of the tree, and the diagnostics of different rules are
\* concatenated in the order the rules were registered: every diagnostic of an
\* earlier-registered rule precedes every diagnostic of a later-registered one.
C29_DiagnosticsInVisitThenRuleOrder ==
    LintRan =>
        LET registered == loadBuiltinRules(run.cfg)
            messages == run.result.messages IN
        /\ \A i \in 1..Len(registered) :
              (registered[i] \in Range(run.out.executed) /\ registered[i] \notin run.createThrows) =>
                  MessagesOf(messages, registered[i])
                    = [k \in 1..Len(ReportsAlong(PreOrder(run.sourceCode.ast), 1, registered[i], run.sourceCode)) |->
                         LintMessage(run.cfg, registered[i], run.file.language,
                                     ReportsAlong(PreOrder(run.sourceCode.ast), 1, registered[i], run.sourceCode)[k])]
        /\ \A a, b \in 1..Len(messages) :
              a < b => IndexOf(registered, messages[a].ruleId) <= IndexOf(registered, messages[b].ruleId)

\* Two rules reported, the earlier-registered one at a node, at a child of it and at a
\* later sibling, the later-registered one at the child.
C29_Witness ==
    /\ LintRan
    /\ Len(MessagesOf(run.result.messages, Rule_html_no_duplicate_attributes)) = 3
    /\ Len(MessagesOf(run.result.messages, Rule_html_require_alt)) = 1

\* C30: after any sequence of get, set, has and clear calls the fast tier holds at most
\* maxMemoryEntries entries (for a capacity of at least 1): size() <= capacity.
C30_FastTierWithinCapacity ==
    Len(memoryCache) <= MaxMemoryEntries

\* The step is cache.set(SetKey, .) / cache.get(GetKey).
SetStep == calls' # calls /\ now' = now /\ history'.op.kind = "set"
SetKey  == history'.op.key
GetStep == calls' # calls /\ now' = now /\ history'.op.kind = "get"
GetKey  == history'.op.key

\* The step puts a key that the fast tier does not hold into the fast tier.
InsertsNewKey(key) ==
    /\ ~MapHas(memoryCache, key)
    /\ \/ SetStep /\ SetKey = key
       \/ GetStep /\ GetKey = key /\ MapHas(memoryCache', key)

\* The keys that stay in the fast tier over the step keep their order of eviction.
OrderKept ==
    \A a \in Range(Keys(memoryCache)) \cap Range(Keys(memoryCache')) :
      \A b \in Range(Keys(memoryCache)) \cap Range(Keys(memoryCache')) :
          IndexOf(Keys(memoryCache), a) < IndexOf(Keys(memoryCache), b)
             => IndexOf(Keys(memoryCache'), a) < IndexOf(Keys(memoryCache'), b)

\* C31: a set, or a promotion in get, that inserts a key the fast tier does not hold
\* while the fast tier is full evicts exactly the entry inserted earliest and puts the
\* new key last; a get served from the fast tier and a set that overwrites a key leave
\* the order of eviction of the entries as it was.
C31_EvictionIsFifo ==
    [][/\ \A key \in CacheKeys :
            (InsertsNewKey(key) /\ Len(memoryCache) = MaxMemoryEntries) =>
                Keys(memoryCache') = Append(Tail(Keys(memoryCache)), key)
       /\ (GetStep /\ MapHas(memoryCache, GetKey)) => memoryCache' = memoryCache
       /\ (SetStep /\ MapHas(memoryCache, SetKey)) => OrderKept]_vars

\* C32: set evicts an entry only if the insertion would otherwise exceed the capacity:
\* a set on a key the fast tier holds, or a set while the fast tier is below capacity,
\* evicts no entry, and a set on a key the fast tier holds leaves size() as it was.
C32_SetEvictsOnlyWhenNeeded ==
    [][SetStep =>
         /\ (MapHas(memoryCache, SetKey) \/ Len(memoryCache) < MaxMemoryEntries) =>
               Range(Keys(memoryCache)) \subseteq Range(Keys(memoryCache'))
         /\ MapHas(memoryCache, SetKey) => Len(memoryCache') = Len(memoryCache)]_vars

\* The last call was a get of a key that was set before and is no longer in the fast tier,
\* while the write of its last set succeeded and that entry is fresh and of the running
\* version.
GotEvicted ==
    /\ JustGot
    /\ ~got.inMemory
    /\ LastSetIsFresh
    /\ history.wrote[got.key]

\* C33: an entry evicted from the fast tier remains retrievable: when its write to the
\* persistent tier succeeded and it is fresh and of the running version, get(k) returns
\* it and puts it back into the fast tier.
C33_EvictedEntryRetrievable ==
    GotEvicted =>
        /\ got.entry = history.last[got.key]
        /\ MapHas(memoryCache, got.key)
        /\ MapGet(memoryCache, got.key) = history.last[got.key]

\* C35: get(k) returns only an entry written by a set(k, .): the entry it returns was
\* made for the content hash of k, and it is not the entry stored under another key.
C35_GetReturnsEntryOfSameKey ==
    (JustGot /\ got.entry # Absent) =>
        /\ got.entry.hash = got.key.hash
        /\ \A other \in DOMAIN history.last :
              (other # got.key /\ other.hash # got.key.hash) =>
                  got.entry # history.last[other]

\* lintAndFormat with parallel mode off, on the enabled files of the run and an empty
\* cache: lintFiles on every file, then formatFiles on every file.
SequentialLintAndFormat ==
    With(filterEnabledFiles(config, run.files), LAMBDA enabledFiles :
    With([i \in 1..Len(enabledFiles) |-> run.writeOk], LAMBDA writes :
    With([config EXCEPT !.parallel = FALSE], LAMBDA sequential :
    With(RunSequential("lint", sequential, <<>>, [f \in FileNames |-> NoFile], version, now,
                       initializeMetrics, enabledFiles, writes, 1), LAMBDA l :
    With(RunSequential("format", sequential, l.memory, l.disk, version, now,
                       initializeMetrics, enabledFiles, writes, 1), LAMBDA f :
         [lintResults |-> l.results, formatResults |-> f.results])))))

\* C34: lintAndFormat in parallel mode returns the lintResults and the formatResults
\* that it returns with parallel mode off, linting and formatting one after the other.
C34_ConcurrentEqualsSequential ==
    (Returned /\ engine.returned.operation = "lintAndFormat" /\ config.parallel) =>
        /\ engine.returned.lintResults = SequentialLintAndFormat.lintResults
        /\ engine.returned.formatResults = SequentialLintAndFormat.formatResults

\* The rules that the registered plugins declare, as (plugin, rule) positions.
DeclaredRules(reg) ==
    UNION {{<<p, i>> : i \in 1..Len(reg.plugins[p].entry.rules)} : p \in 1..Len(reg.plugins)}

\* C36: in every registry state reached by registerPlugin and unregisterPlugin calls,
\* every entry of the rule map and of the formatter map is contributed by the current
\* definition of a registered plugin, and getPluginStats().totalRules is the number of
\* rules that the registered plugins declare.
C36_RegistryHoldsOnlyCurrentContributions ==
    /\ \A r \in 1..Len(rules) :
          \E p \in 1..Len(plugins) : rules[r] \in Range(FullRuleIds(plugins[p].entry))
    /\ \A f \in 1..Len(formatters) :
          /\ MapHas(plugins, formatters[f].key)
          /\ Range(formatters[f].entry) \subseteq Range(MapGet(plugins, formatters[f].key).formatters)
    /\ getPluginStats(CurrentRegistry).totalRules = Cardinality(DeclaredRules(CurrentRegistry))

\* The step is a getMetrics() call that follows a getMetrics() call with no lint, format
\* or reset operation between them.
SecondGetMetrics ==
    /\ engine.returned.operation = "getMetrics"
    /\ engine'.reads = engine.reads + 1

\* C37: getMetrics() is read-only: of two consecutive getMetrics() calls with no lint,
\* format or reset operation between them the second returns the counters that the
\* first returned.
C37_GetMetricsIsReadOnly ==
    [][SecondGetMetrics => engine'.returned.metrics = engine.returned.metrics]_vars

\* C38: with caching enabled, a file that occurs more than once in one lintFiles /
\* formatFiles batch is computed once and its further occurrences are cache hits, in
\* parallel mode as in sequential mode: no more results are computed than the list has
\* distinct files, and every repeated occurrence counts as a hit.
C38_DuplicateFileComputedOnce ==
    (batch.phase = "done" /\ config.cacheEnabled) =>
        /\ MetricsOf(batch.operation).filesProcessed <= Cardinality(Range(batch.files))
        /\ MetricsOf(batch.operation).cacheHits >= Len(batch.files) - Cardinality(Range(batch.files))

-----------------------------------------------------------------------------
(* chunkArray in the parallel branch of lintFiles / formatFiles            *)

\* The iterations of the loop of chunkArray that are followed.
MaxChunkSteps == 4

\* Values of config.maxWorkers: negative, zero and positive.
MaxWorkersValues == {-2, -1, 0, 1, 2, 3}

\* Lists that take the parallel branch (files.length > 1).
ChunkedFileLists == UNION {[1..n -> EngineFiles] : n \in 2..3}

\* An index of Array.prototype.slice relative to the length: a negative index counts
\* from the end, and the result is clamped to 0..len.
RelativeIndex(index, len) ==
    IF index < 0 THEN Max(len + index, 0) ELSE IF index > len THEN len ELSE index

\* array.slice(start, end)
Slice(array, start, end) ==
    SubSeq(array, RelativeIndex(start, Len(array)) + 1, RelativeIndex(end, Len(array)))

\* lintFiles / formatFiles in parallel mode on more than one file, at the call
\* this.chunkArray(files, this.config.maxWorkers || 4): i = 0 and chunks = [].
InitChunks ==
    /\ InitCache
    /\ InitExec
    /\ InitRegistry
    /\ batch = NoBatch
    /\ engine = NoEngine
    /\ \E files \in ChunkedFileLists, maxWorkers \in MaxWorkersValues :
          run = [phase |-> "chunking", array |-> files,
                 chunkSize |-> ChunkSize([maxWorkers |-> maxWorkers]),
                 i |-> 0, chunks |-> <<>>]

\* One iteration of `for (let i = 0; i < array.length; i += chunkSize)`.
ChunkArrayStep ==
    /\ run.phase = "chunking"
    /\ Len(run.chunks) < MaxChunkSteps
    /\ run.i < Len(run.array)
    /\ run' = [run EXCEPT !.chunks = Append(@, Slice(run.array, run.i, run.i + run.chunkSize)),
                          !.i = @ + run.chunkSize]
    /\ UNCHANGED <<cacheVars, execVars, calls, registryVars, batch, engine, history>>

\* The loop condition is false: `return chunks`.
ChunkArrayReturn ==
    /\ run.phase = "chunking"
    /\ run.i >= Len(run.array)
    /\ run' = [run EXCEPT !.phase = "chunked"]
    /\ UNCHANGED <<cacheVars, execVars, calls, registryVars, batch, engine, history>>

NextChunks == ChunkArrayStep \/ ChunkArrayReturn

SpecChunks == InitChunks /\ [][NextChunks]_vars

RECURSIVE Concat(_)
\* The concatenation of a list of lists.
Concat(lists) == IF lists = <<>> THEN <<>> ELSE Head(lists) \o Concat(Tail(lists))

\* C39: for every list of files and every configured maxWorkers (positive, zero or
\* negative) the list is split into finitely many consecutive non-empty chunks of at
\* most chunk-size files whose concatenation is the list: every chunk made is non-empty,
\* there are never more chunks than files, and the chunks returned concatenate to the
\* list, each of at most max(chunkSize, 1) files.
C39_ChunksPartitionTheList ==
    /\ \A k \in 1..Len(run.chunks) : run.chunks[k] # <<>>
    /\ Len(run.chunks) <= Len(run.array)
    /\ run.phase = "chunked" =>
          /\ Concat(run.chunks) = run.array
          /\ \A k \in 1..Len(run.chunks) : Len(run.chunks[k]) <= Max(run.chunkSize, 1)

-----------------------------------------------------------------------------
(* lintFile / formatFile called directly on a file of an unsupported language *)

\* A file whose language is none of html, css, javascript, typescript.
UnsupportedFiles == {FileInfo("test.py", Content_a, "python"), FileInfo("test.py", Content_b, "python")}

\* lintFile(file) for any language: getLanguageConfig throws on an unsupported language
\* when the content hash is computed, before the cache is consulted.
lintFileOrThrow(cfg, mem, disk, ver, t, metrics, file, writeOk) ==
    IF file.language \in SupportedLanguages
      THEN With(lintFile(cfg, mem, disk, ver, t, metrics, file, writeOk), LAMBDA r :
                [threw |-> FALSE, result |-> r.result, memory |-> r.memory, disk |-> r.disk,
                 metrics |-> r.metrics])
      ELSE [threw |-> TRUE, result |-> NoResult, memory |-> mem, disk |-> disk, metrics |-> metrics]

\* formatFile(file) for any language: getLanguageFormattingConfig falls back to
\* config.formatting, the cache is consulted, and on a miss formatByLanguage throws on an
\* unsupported language.
formatFileOrThrow(cfg, mem, disk, ver, t, metrics, file, writeOk) ==
    With(formatFileStart(cfg, mem, disk, ver, t, metrics, file), LAMBDA start :
         IF start.stage = "done"
           THEN [threw |-> FALSE, result |-> start.result, memory |-> start.memory, disk |-> disk,
                 metrics |-> start.metrics]
         ELSE IF formatByLanguage(file.content, file.language,
                                  getLanguageFormattingConfig(cfg, file.language)).threw
           THEN [threw |-> TRUE, result |-> NoResult, memory |-> start.memory, disk |-> disk,
                 metrics |-> start.metrics]
           ELSE With(formatFileFinish(cfg, start.memory, disk, ver, t, start.metrics, file, writeOk),
                     LAMBDA done :
                     [threw |-> FALSE, result |-> done.result, memory |-> done.memory,
                      disk |-> done.disk, metrics |-> done.metrics]))

\* The cache contents and the metrics counters of both subsystems.
Snapshot(mem, disk, linter, formatter) ==
    [memory |-> mem, disk |-> disk, linter |-> linter, formatter |-> formatter]

\* linter.lintFile(file) on a file of an unsupported language
LintUnsupported(file) ==
    /\ calls < MaxCalls
    /\ calls' = calls + 1
    /\ \E r \in {lintFileOrThrow(config, memoryCache, diskCache, version, now, linterMetrics,
                                 file, TRUE)} :
       /\ memoryCache' = r.memory
       /\ diskCache' = r.disk
       /\ linterMetrics' = r.metrics
       /\ run' = [phase |-> "unsupported", operation |-> "lint", file |-> file, threw |-> r.threw,
                  before |-> Snapshot(memoryCache, diskCache, linterMetrics, formatterMetrics),
                  after  |-> Snapshot(r.memory, r.disk, r.metrics, formatterMetrics)]
    /\ UNCHANGED <<version, now, got, config, formatterMetrics, call, prevCall, lookedUp,
                   registryVars, batch, engine, history>>

\* formatter.formatFile(file) on a file of an unsupported language
FormatUnsupported(file) ==
    /\ calls < MaxCalls
    /\ calls' = calls + 1
    /\ \E r \in {formatFileOrThrow(config, memoryCache, diskCache, version, now, formatterMetrics,
                                   file, TRUE)} :
       /\ memoryCache' = r.memory
       /\ diskCache' = r.disk
       /\ formatterMetrics' = r.metrics
       /\ run' = [phase |-> "unsupported", operation |-> "format", file |-> file, threw |-> r.threw,
                  before |-> Snapshot(memoryCache, diskCache, linterMetrics, formatterMetrics),
                  after  |-> Snapshot(r.memory, r.disk, linterMetrics, r.metrics)]
    /\ UNCHANGED <<version, now, got, config, linterMetrics, call, prevCall, lookedUp,
                   registryVars, batch, engine, history>>

NextUnsupported ==
    \/ \E file \in Files, writeOk \in BOOLEAN : LintFile(file, writeOk)
    \/ \E file \in FormatFiles, writeOk \in BOOLEAN : FormatFile(file, writeOk)
    \/ \E file \in UnsupportedFiles : LintUnsupported(file)
    \/ \E file \in UnsupportedFiles : FormatUnsupported(file)

SpecUnsupported == Init /\ [][NextUnsupported]_vars

\* C40: a direct lintFile or formatFile call on a file whose language is not supported
\* fails with an error and leaves the cache contents and every metrics counter,
\* cacheHits and cacheMisses included, as they were before the call.
C40_UnsupportedLanguageFailsCleanly ==
    run.phase = "unsupported" =>
        /\ run.threw
        /\ run.after = run.before

====
